---- MODULE Spec2Model ----
(***************************************************************************)
(* Request throttling gate (BaseClient.sendPostRequest with                *)
(* ThrottlingUtils.preProcess / postProcess) and the browser key store     *)
(* (CryptoOps) of the token-binding subsystem.                             *)
(*                                                                         *)
(* Time is counted in ticks; throttleTime and now use the same unit.       *)
(***************************************************************************)
EXTENDS Integers, Sequences, FiniteSets, TLC

\* ------------------------------------------------------------- bounds
NumCalls == 2
MaxTime == 3
NumTasks == 2

Calls == 1..NumCalls
Thumbprints == {"T1", "T2"}

\* ThrottlingUtils' default backoff window, used when the response names no delay
DEFAULT_THROTTLE_TIME == 2

\* ------------------------------------------------- values of the gate
NoHeader == 0
\* the delays (Retry-After) a response may suggest
RetryAfterValues == {NoHeader, 1, 3}
Statuses == {200, 429, 500}

\* response bodies: the error fields a token endpoint answers with
Bodies ==
    { [error |-> "invalid_grant", errorCode |-> "50196", subError |-> "bad_token"],
      [error |-> "temporarily_unavailable", errorCode |-> "70000", subError |-> "retry"] }

NoEntry == [present |-> FALSE, throttleTime |-> 0, error |-> "", errorCode |-> "", subError |-> ""]

ThrottlingEntry(tt, body) ==
    [present |-> TRUE, throttleTime |-> tt, error |-> body.error,
     errorCode |-> body.errorCode, subError |-> body.subError]

NoOutcome ==
    [kind |-> "none", status |-> 0, retryAfter |-> NoHeader,
     error |-> "", errorCode |-> "", subError |-> ""]

NetworkResponse(status, retryAfter, body) ==
    [kind |-> "response", status |-> status, retryAfter |-> retryAfter,
     error |-> body.error, errorCode |-> body.errorCode, subError |-> body.subError]

\* an error object: its class and its error code
ErrorObject(class, errorCode) == [class |-> class, errorCode |-> errorCode]
NoError == ErrorObject("", "")

\* a NetworkError: the error it wraps (e.error), and the status and the
\* Retry-After header of the response it came from (e.httpStatus,
\* e.responseHeaders)
NetworkError(error, httpStatus, retryAfter) ==
    [class |-> "NetworkError", errorCode |-> "network_error", error |-> error,
     httpStatus |-> httpStatus, retryAfter |-> retryAfter]

\* an error that is no NetworkError
PlainError(class, errorCode) ==
    [class |-> class, errorCode |-> errorCode, error |-> NoError,
     httpStatus |-> 0, retryAfter |-> NoHeader]

\* nothing was caught
NoFailure == [class |-> ""]

\* what networkClient.sendPostRequestAsync may throw
NetworkFailures ==
    { NetworkError(ErrorObject("AuthError", "post_request_failed"), 429, NoHeader),
      NetworkError(ErrorObject("AuthError", "post_request_failed"), 500, NoHeader),
      NetworkError(ErrorObject("AuthError", "post_request_failed"), 0, 3),
      PlainError("AuthError", "interaction_required"),
      PlainError("TypeError", "") }

\* one failure of each class
NetworkFailureClasses ==
    { NetworkError(ErrorObject("AuthError", "post_request_failed"), 429, NoHeader),
      PlainError("AuthError", "interaction_required"),
      PlainError("TypeError", "") }

VARIABLES
    now,              \* the clock (Date.now())
    throttlingCache,  \* cacheManager's throttling entries, by thumbprint
    call,             \* the sendPostRequest calls in flight on one client
    last,             \* the step of sendPostRequest taken last, and what it gave
    maxWritten        \* history: the latest throttleTime written per thumbprint
                      \* that has not passed yet (0: none)

VARIABLES
    asymmetricKeys,   \* the key store's asymmetric partition, by thumbprint
    symmetricKeys,    \* the key store's symmetric partition: the identifiers held
    task,             \* the CryptoOps calls in flight, each at a suspension point
    klast,            \* the step of a CryptoOps call taken last, and what it gave
    issued,           \* history: thumbprints returned by getPublicKeyThumbprint with
                      \* no removeTokenBindingKey of them and no clearKeystore
                      \* running at or after the return
    intact            \* history: those of them whose pair met no removal since it
                      \* was stored

VARIABLES
    jwks              \* two public JWKs and the thumbprints computed for them

VARIABLES
    pop               \* a call of the PoP token generator: its inputs and what it made

VARIABLES
    telemetry         \* the server telemetry manager at the step of
                      \* executePostToTokenEndpoint taken last

VARIABLES
    authority,        \* the client's authority object (this.authority)
    updateAuthority,  \* the updateAuthority calls in flight on the client
    alast             \* the step of updateAuthority taken last, and what it gave

VARIABLES
    app,              \* a NativeAuthPublicClientApplication and its controllers
    signIn            \* a call of the native-auth controller: its inputs, the
                      \* calls it made of the sign-in client, and its result

gateVars == <<now, throttlingCache, call, last, maxWritten>>
keyVars == <<asymmetricKeys, symmetricKeys, task, klast, issued, intact>>
authorityVars == <<authority, updateAuthority, alast>>
nativeVars == <<app, signIn>>
vars == <<now, throttlingCache, call, last, maxWritten,
          asymmetricKeys, symmetricKeys, task, klast, issued, intact, jwks, pop,
          telemetry, authority, updateAuthority, alast, app, signIn>>

\* --------------------------------------------- ThrottlingUtils (gate)
\* faulty variant: no entry ever expires
IsExpired_Never(entry) == entry.throttleTime < 0

\* preProcess: an entry whose throttleTime has passed is expired
IsExpired(entry) == entry.throttleTime < now

\* preProcess throws a throttling error when a live entry is cached
PreProcessThrows(cache, t) == cache[t].present /\ ~IsExpired(cache[t])

\* preProcess removes an expired entry (lazy cleanup)
PreProcessCache(cache, t) ==
    IF cache[t].present /\ IsExpired(cache[t])
    THEN [cache EXCEPT ![t] = NoEntry]
    ELSE cache

\* the throttling error carries the cached fields
ThrottlingError(entry) ==
    [kind |-> "throttled", status |-> 0, retryAfter |-> NoHeader,
     error |-> entry.error, errorCode |-> entry.errorCode, subError |-> entry.subError]

\* postProcess: the response's throttling signals
HasThrottlingSignal(resp) ==
    resp.status = 429 \/ resp.status >= 500 \/ resp.retryAfter # NoHeader

CalculateThrottleTime(retryAfter) ==
    now + (IF retryAfter # NoHeader THEN retryAfter ELSE DEFAULT_THROTTLE_TIME)

PostProcess(cache, t, resp) ==
    IF HasThrottlingSignal(resp)
    THEN [cache EXCEPT ![t] =
            ThrottlingEntry(CalculateThrottleTime(resp.retryAfter),
                            [error |-> resp.error, errorCode |-> resp.errorCode,
                             subError |-> resp.subError])]
    ELSE cache


\* ---------------------------------------- BaseClient.sendPostRequest
IdleCall == [pc |-> "idle", thumbprint |-> "", preOk |-> FALSE, net |-> 0]

NoStep ==
    [op |-> "none", thumbprint |-> "", preOk |-> FALSE, owed |-> FALSE,
     net |-> 0, post |-> 0, postThumbprint |-> "", outcome |-> NoOutcome,
     failure |-> NoFailure, expired |-> FALSE]

\* faulty variant: the exception of preProcess is swallowed and the request is sent anyway
NetworkInvocations_Always(preThrew) == 1

\* faulty variant: the request is never dispatched
NetworkInvocations_Never(preThrew) == 0

\* faulty variant: the gate sends the request a second time
NetworkInvocations_Twice(preThrew) == IF preThrew THEN 0 ELSE 2

\* how often the network client is invoked after preProcess: an exception thrown
\* by preProcess leaves sendPostRequest before the network call
NetworkInvocations(preThrew) == IF preThrew THEN 0 ELSE 1

\* faulty variant: postProcess is handed another thumbprint than preProcess
PostFlightThumbprint_Other(t) == CHOOSE u \in Thumbprints : u # t

\* the thumbprint handed to postProcess is the parameter preProcess was given
PostFlightThumbprint(t) == t

\* faulty variant: postProcess is not called
CacheAfterResponse_Skip(cache, t, resp) == cache

\* faulty variant: a response without a throttling signal clears the entry
CacheAfterResponse_ClearOnSuccess(cache, t, resp) ==
    IF HasThrottlingSignal(resp) THEN PostProcess(cache, t, resp)
    ELSE [cache EXCEPT ![t] = NoEntry]

\* faulty variant: a response sweeps the expired entries out of the cache
CacheAfterResponse_Sweep(cache, t, resp) ==
    [u \in Thumbprints |->
        IF PostProcess(cache, t, resp)[u].throttleTime < now THEN NoEntry
        ELSE PostProcess(cache, t, resp)[u]]

\* faulty variant: an entry that is in the cache is not overwritten
CacheAfterResponse_KeepFirst(cache, t, resp) ==
    IF cache[t].present THEN cache ELSE PostProcess(cache, t, resp)

\* what a returned response does to the throttling cache: postProcess alone
CacheAfterResponse(cache, t, resp) == PostProcess(cache, t, resp)

\* faulty variant: postProcess also runs when the network call threw
PostFlights_Always(kind) == 1

\* how often postProcess runs on each way out of the try/catch
PostFlights(kind) == IF kind = "response" THEN 1 ELSE 0

\* what is thrown, as an outcome of the call: the class of the error in
\* error, its code in errorCode
Thrown(e) ==
    [kind |-> "thrown", status |-> 0, retryAfter |-> NoHeader,
     error |-> e.class, errorCode |-> e.errorCode, subError |-> ""]

\* faulty variant: whatever was caught is thrown again as it is
ThrownFor_Rethrow(failure) == Thrown(failure)

\* the catch block: what sendPostRequest throws for a failure of the network call
ThrownFor(failure) ==
    IF failure.class = "NetworkError" THEN Thrown(failure.error)
    ELSE IF failure.class = "AuthError" THEN Thrown(failure)
    ELSE Thrown(ErrorObject("ClientAuthError", "network_error"))

\* the response a NetworkError came from, as postProcess would read it
FailedResponse(failure) ==
    [kind |-> "response", status |-> failure.httpStatus,
     retryAfter |-> failure.retryAfter,
     error |-> failure.errorCode, errorCode |-> "", subError |-> ""]

\* faulty variant: the response behind a NetworkError is given to postProcess
CacheAfterFailure_Throttles(cache, t, failure) ==
    IF failure.class = "NetworkError"
    THEN PostProcess(cache, t, FailedResponse(failure))
    ELSE cache

\* what a failed network call does to the throttling cache: the catch block
\* throws before postProcess is reached
CacheAfterFailure(cache, t, failure) == cache

\* history: the latest throttleTime written per thumbprint, after a step that
\* took the cache from before to after
WrittenAfter(before, after) ==
    [u \in Thumbprints |->
        IF after[u] # before[u] /\ after[u].present
           /\ after[u].throttleTime > maxWritten[u]
        THEN after[u].throttleTime
        ELSE maxWritten[u]]

\* sendPostRequest up to its first suspension point: preProcess, then the
\* network call is dispatched and awaited
SendPostRequestBegin(c, t) ==
    /\ call[c].pc = "idle"
    /\ LET threw == PreProcessThrows(throttlingCache, t)
           n == NetworkInvocations(threw)
           step == [NoStep EXCEPT
                      !.op = "begin", !.thumbprint = t, !.preOk = ~threw,
                      !.owed = maxWritten[t] > now, !.net = n,
                      !.expired = throttlingCache[t].present
                                    /\ IsExpired(throttlingCache[t]),
                      !.outcome = IF threw THEN ThrottlingError(throttlingCache[t])
                                  ELSE NoOutcome]
       IN /\ throttlingCache' = PreProcessCache(throttlingCache, t)
          /\ call' = [call EXCEPT ![c] =
                IF n > 0
                THEN [pc |-> "awaiting", thumbprint |-> t, preOk |-> ~threw, net |-> n]
                ELSE IdleCall]
          /\ last' = step
    /\ UNCHANGED <<now, maxWritten, keyVars, jwks, pop, authorityVars, nativeVars>>

\* the awaited network call returns a response: postProcess, then return
SendPostRequestResponse(c, resp) ==
    /\ call[c].pc = "awaiting"
    /\ LET t == PostFlightThumbprint(call[c].thumbprint)
           k == PostFlights("response")
       IN /\ throttlingCache' =
                IF k > 0 THEN CacheAfterResponse(throttlingCache, t, resp)
                ELSE throttlingCache
          /\ last' = [NoStep EXCEPT
                        !.op = "response", !.thumbprint = call[c].thumbprint,
                        !.preOk = call[c].preOk, !.net = call[c].net, !.post = k,
                        !.postThumbprint = IF k > 0 THEN t ELSE "",
                        !.outcome = resp]
          /\ maxWritten' = WrittenAfter(throttlingCache, throttlingCache')
    /\ call' = [call EXCEPT ![c] = IdleCall]
    /\ UNCHANGED <<now, keyVars, jwks, pop, authorityVars, nativeVars>>

\* the awaited network call throws: the catch block throws in turn, and
\* postProcess is not reached
SendPostRequestFailure(c, failure) ==
    /\ call[c].pc = "awaiting"
    /\ LET k == PostFlights("thrown")
       IN last' = [NoStep EXCEPT
                     !.op = "failure", !.thumbprint = call[c].thumbprint,
                     !.preOk = call[c].preOk, !.net = call[c].net, !.post = k,
                     !.failure = failure,
                     !.outcome = ThrownFor(failure)]
    /\ throttlingCache' =
          CacheAfterFailure(throttlingCache, call[c].thumbprint, failure)
    /\ maxWritten' = WrittenAfter(throttlingCache, throttlingCache')
    /\ call' = [call EXCEPT ![c] = IdleCall]
    /\ UNCHANGED <<now, keyVars, jwks, pop, authorityVars, nativeVars>>

\* time passes
Tick ==
    /\ now < MaxTime
    /\ now' = now + 1
    /\ last' = [NoStep EXCEPT !.op = "tick"]
    /\ maxWritten' = [u \in Thumbprints |->
                        IF maxWritten[u] > now' THEN maxWritten[u] ELSE 0]
    /\ UNCHANGED <<throttlingCache, call, keyVars, jwks, pop, authorityVars, nativeVars>>

\* ------------------------------- BaseClient.executePostToTokenEndpoint
\* the server telemetry manager: whether the client of the call is configured
\* with one, and how often its clearTelemetryCache was called in the step
NoTelemetry == [serverTelemetryManager |-> FALSE, clears |-> 0]

\* faulty variant: the telemetry cache is cleared after any response
ClearTelemetryCacheCalls_AnyStatus(serverTelemetryManager, outcome) ==
    IF outcome.kind = "response" /\ serverTelemetryManager THEN 1 ELSE 0

\* executePostToTokenEndpoint after sendPostRequest: an exception of
\* sendPostRequest leaves it at the await; with a response, the telemetry cache
\* is cleared when a manager is configured and the status is neither 429 nor
\* a server error
ClearTelemetryCacheCalls(serverTelemetryManager, outcome) ==
    IF /\ outcome.kind = "response"
       /\ serverTelemetryManager
       /\ outcome.status < 500
       /\ outcome.status # 429
    THEN 1 ELSE 0

\* the telemetry step of executePostToTokenEndpoint after the step of
\* sendPostRequest recorded in step; manager is the configuration of the
\* client the call was made on
TelemetryStep(manager, step) ==
    [serverTelemetryManager |-> manager,
     clears |-> ClearTelemetryCacheCalls(manager, step.outcome)]

\* executePostToTokenEndpoint up to the first suspension point of sendPostRequest
ExecutePostToTokenEndpointBegin(c, t, manager) ==
    /\ SendPostRequestBegin(c, t)
    /\ telemetry' = TelemetryStep(manager, last')

\* sendPostRequest returns a response to executePostToTokenEndpoint
ExecutePostToTokenEndpointResponse(c, resp, manager) ==
    /\ SendPostRequestResponse(c, resp)
    /\ telemetry' = TelemetryStep(manager, last')

\* sendPostRequest throws out of executePostToTokenEndpoint
ExecutePostToTokenEndpointFailure(c, failure, manager) ==
    /\ SendPostRequestFailure(c, failure)
    /\ telemetry' = TelemetryStep(manager, last')

\* ------------------------------------------------- CryptoOps values
Tasks == 1..NumTasks
\* the key materials generateKeyPair may come up with
KeyIds == {1, 2}

\* CryptoOps.EXTRACTABLE: key pairs are generated extractable
EXTRACTABLE == TRUE

SignedHttpRequestParameters ==
    { [resourceRequestMethod |-> "POST", resourceRequestUri |-> "https://resource.example/api"],
      [resourceRequestMethod |-> "GET", resourceRequestUri |-> "https://resource.example/api"] }

\* the claims signPopToken hands to signJwt
Payloads ==
    { [at |-> "access_token_1", nonce |-> "nonce", cnf |-> <<>>],
      [at |-> "access_token_2", nonce |-> "nonce", cnf |-> <<>>] }

\* the identifiers of the symmetric keys a persisted key store may hold
SymmetricKeyIds == {"S1"}

\* a half of a CryptoKeyPair that is missing
NoKey == [kind |-> "none", material |-> 0, extractable |-> FALSE]

\* what generateKeyPair may do: give a pair, throw, or give a pair with a half missing
KeyGenerationFailures == {"throws", "noPublicKey", "noPrivateKey"}
GenerationOutcomes == {"ok"} \cup KeyGenerationFailures

\* browserCrypto.generateKeyPair(keyOptions, extractable) for key material n
GenerateKeyPair(n, extractable) ==
    [publicKey |-> [kind |-> "public", material |-> n, extractable |-> TRUE],
     privateKey |-> [kind |-> "private", material |-> n, extractable |-> extractable]]

\* browserCrypto.exportJwk
ExportJwk(key) ==
    [kty |-> "RSA", e |-> "AQAB", n |-> key.material, alg |-> "RS256",
     d |-> IF key.kind = "private" THEN key.material ELSE 0]

\* browserCrypto.importJwk(keyOptions, jwk, extractable, usages)
ImportJwk(jwk, extractable) ==
    [kind |-> "private", material |-> jwk.d, extractable |-> extractable]

\* JSON.stringify and JSON.parse
JsonStringify(x) == <<"json", x>>
JsonParse(text) == text[2]

\* BrowserCrypto.getJwkString
GetJwkString(jwk) == JsonStringify(jwk)

\* hashString: base64url of the SHA-256 digest of the text
HashString(text) == <<"sha256", text>>

\* browserCrypto.sign(options, privateKey, buffer)
Sign(privateKey, buffer) == <<"signature", privateKey.kind, privateKey.material, buffer>>

UrlEncode(x) == <<"base64url", x>>

NoKeyPair ==
    [present |-> FALSE, publicKey |-> <<>>, privateKey |-> <<>>,
     requestMethod |-> "", requestUri |-> ""]

\* the public JWKs exportJwk may give: the fields the thumbprint is taken
\* over, and fields beside them
PublicJwks ==
    [e : {"AQAB", "AQAC"}, kty : {"RSA", "EC"}, n : KeyIds,
     alg : {"RS256", "PS256"}, ext : BOOLEAN]

NoJwks == [pc |-> "none", first |-> <<>>, second |-> <<>>,
           firstHash |-> <<>>, secondHash |-> <<>>]

\* the thumbprint object of getPublicKeyThumbprint: e, kty and n of the public JWK
PubKeyThumbprintObj(publicKeyJwk) ==
    << <<"e", publicKeyJwk.e>>, <<"kty", publicKeyJwk.kty>>, <<"n", publicKeyJwk.n>> >>

\* faulty variant: the thumbprint is taken over alg as well
JwkThumbprint_WithAlg(publicKeyJwk) ==
    HashString(GetJwkString(
        PubKeyThumbprintObj(publicKeyJwk) \o << <<"alg", publicKeyJwk.alg>> >>))

\* the thumbprint of a public JWK: the hash of the string of e, kty and n
JwkThumbprint(publicKeyJwk) ==
    HashString(GetJwkString(PubKeyThumbprintObj(publicKeyJwk)))

PublicJwkHash(keyPair) == JwkThumbprint(ExportJwk(keyPair.publicKey))

\* every thumbprint a generated key can have
Kids == { PublicJwkHash(GenerateKeyPair(n, EXTRACTABLE)) : n \in KeyIds }

\* faulty variant: the private key of the generated pair is cached as generated
StoredPrivateKey_AsGenerated(keyPair) == keyPair.privateKey

\* the private key getPublicKeyThumbprint caches: the exported private JWK
\* imported again with extractable = false
StoredPrivateKey(keyPair) == ImportJwk(ExportJwk(keyPair.privateKey), FALSE)

\* faulty variant: the pair is cached under the hash of the whole public JWK string
StorageKey_WholeJwk(keyPair) ==
    HashString(GetJwkString(ExportJwk(keyPair.publicKey)))

\* faulty variant: every pair is cached under one and the same key
StorageKey_Fixed(keyPair) == CHOOSE k \in Kids : TRUE

\* the key getPublicKeyThumbprint stores the pair under
StorageKey(keyPair) == PublicJwkHash(keyPair)

\* faulty variant: the request's method and uri are not cached with the pair
CachedKeyPair_NoRequest(keyPair, request) ==
    [present |-> TRUE, publicKey |-> keyPair.publicKey,
     privateKey |-> StoredPrivateKey(keyPair),
     requestMethod |-> "", requestUri |-> ""]

CachedKeyPair(keyPair, request) ==
    [present |-> TRUE, publicKey |-> keyPair.publicKey,
     privateKey |-> StoredPrivateKey(keyPair),
     requestMethod |-> request.resourceRequestMethod,
     requestUri |-> request.resourceRequestUri]

\* the pair generateKeyPair gives for an outcome
GeneratedPair(n, outcome) ==
    [publicKey |-> IF outcome = "noPublicKey" THEN NoKey
                   ELSE GenerateKeyPair(n, EXTRACTABLE).publicKey,
     privateKey |-> IF outcome = "noPrivateKey" THEN NoKey
                    ELSE GenerateKeyPair(n, EXTRACTABLE).privateKey]

\* faulty variant: only a throwing generateKeyPair counts as a failure
KeyGenerationFailed_OnlyThrows(outcome) == outcome = "throws"

\* generateKeyPairHelper throws, or the check of the pair's halves does
KeyGenerationFailed(outcome) == outcome \in KeyGenerationFailures

\* faulty variant: signJwt signs with a key made from the public key's material
SigningKey_Public(cachedKeyPair) == cachedKeyPair.publicKey

\* the key signJwt signs with
SigningKey(cachedKeyPair) == cachedKeyPair.privateKey

\* faulty variant: the header carries the number of calls in flight
JwtHeader_Numbered(publicKeyJwk) ==
    [alg |-> publicKeyJwk.alg, type |-> "jwk",
     seq |-> Cardinality({q \in Tasks : task[q].pc # "idle"})]

\* the header of the token
JwtHeader(publicKeyJwk) == [alg |-> publicKeyJwk.alg, type |-> "jwk"]

\* the token signJwt builds from the pair it read
SignedJwt(payload, cachedKeyPair) ==
    LET publicKeyJwk == ExportJwk(cachedKeyPair.publicKey)
        publicKeyJwkString == GetJwkString(publicKeyJwk)
        encodedHeader == UrlEncode(JsonStringify(JwtHeader(publicKeyJwk)))
        encodedPayload ==
            UrlEncode(JsonStringify(
                [payload EXCEPT !.cnf = [jwk |-> JsonParse(publicKeyJwkString)]]))
        tokenString == <<encodedHeader, encodedPayload>>
    IN <<encodedHeader, encodedPayload,
         UrlEncode(Sign(SigningKey(cachedKeyPair), tokenString))>>

\* faulty variant: a missing pair is not noticed
PairFound_Always(cachedKeyPair) == TRUE

\* the check of what getItem gave: if (!cachedKeyPair) throw
PairFound(cachedKeyPair) == cachedKeyPair.present

\* faulty variant: removeItem takes the whole partition with it
RemovedKeys_All(kid) == Kids

\* the entries removeTokenBindingKey removes
RemovedKeys(kid) == {kid}

\* deleteDatabase: the wipe of the storage drops the entries of both
\* partitions, or fails and drops nothing
DeleteDatabaseAsymmetric(entries, deleted) ==
    IF deleted THEN [k \in Kids |-> NoKeyPair] ELSE entries

DeleteDatabaseSymmetric(identifiers, deleted) ==
    IF deleted THEN {} ELSE identifiers

\* faulty variant: clearKeystore reports success whatever the wipe gave
ClearKeystoreResult_True(deleted) == TRUE

\* what clearKeystore returns: the result of deleteDatabase
ClearKeystoreResult(deleted) == deleted

\* the fields of a cached pair that signJwt uses after the lookup
KeysOf(cachedKeyPair) ==
    [NoKeyPair EXCEPT !.present = cachedKeyPair.present,
                      !.publicKey = cachedKeyPair.publicKey,
                      !.privateKey = cachedKeyPair.privateKey]

IdleTask ==
    [pc |-> "idle", kid |-> <<>>, pair |-> NoKeyPair, disturbed |-> FALSE, ok |-> FALSE]

NoKeyStep ==
    [op |-> "none", kid |-> <<>>, pair |-> NoKeyPair, found |-> FALSE,
     wasIssued |-> FALSE, wasIntact |-> FALSE, result |-> <<>>,
     input |-> <<>>, gen |-> "", calls |-> 0]

\* a removeTokenBindingKey(kid) or a clearKeystore is in flight
Removing(kid) ==
    \E q \in Tasks : \/ task[q].pc = "removed" /\ task[q].kid = kid
                     \/ task[q].pc = "cleared"

\* a removal of kid (or of everything) reaches the calls that stored and have
\* not returned yet
Disturb(kids) ==
    [q \in Tasks |->
        IF task[q].pc = "stored" /\ task[q].kid \in kids
        THEN [task[q] EXCEPT !.disturbed = TRUE] ELSE task[q]]

\* ------------------------------------------------------------ CryptoOps
\* getPublicKeyThumbprint to the await of setItem: the key pair is generated,
\* exported, hashed, re-imported and put into the store (the awaits before
\* setItem touch no shared state and are folded into this step)
GetPublicKeyThumbprintStore(p, request, n, outcome) ==
    /\ task[p].pc = "idle"
    /\ ~KeyGenerationFailed(outcome)
    /\ LET keyPair == GeneratedPair(n, outcome)
           publicJwkHash == PublicJwkHash(keyPair)
           entry == CachedKeyPair(keyPair, request)
       IN /\ asymmetricKeys' = [asymmetricKeys EXCEPT ![StorageKey(keyPair)] = entry]
          /\ task' = [task EXCEPT ![p] =
                [IdleTask EXCEPT !.pc = "stored", !.kid = publicJwkHash]]
          /\ klast' = [NoKeyStep EXCEPT !.op = "stored", !.kid = publicJwkHash,
                                        !.input = <<request>>, !.gen = outcome]
    /\ UNCHANGED <<symmetricKeys, gateVars, jwks, pop, telemetry, authorityVars, nativeVars>>

\* key generation throws, or gives a pair with a half missing: KeyGenerationFailed
GetPublicKeyThumbprintFails(outcome) ==
    /\ KeyGenerationFailed(outcome)
    /\ klast' = [NoKeyStep EXCEPT !.op = "keyGenerationFailed", !.gen = outcome,
                                  !.result = <<"KeyGenerationFailed">>]
    /\ UNCHANGED <<asymmetricKeys, symmetricKeys, task, gateVars, jwks, pop, telemetry, authorityVars, nativeVars>>

\* setItem has resolved: the thumbprint is returned
GetPublicKeyThumbprintReturn(p) ==
    /\ task[p].pc = "stored"
    /\ klast' = [NoKeyStep EXCEPT !.op = "thumbprint", !.kid = task[p].kid,
                                  !.found = ~task[p].disturbed,
                                  !.result = <<task[p].kid>>]
    /\ task' = [task EXCEPT ![p] = IdleTask]
    /\ UNCHANGED <<asymmetricKeys, symmetricKeys, gateVars, jwks, pop, telemetry, authorityVars, nativeVars>>

\* removeTokenBindingKey to the await of removeItem
RemoveTokenBindingKeyRemove(p, kid) ==
    /\ task[p].pc = "idle"
    /\ asymmetricKeys' = [k \in Kids |->
                            IF k \in RemovedKeys(kid) THEN NoKeyPair
                            ELSE asymmetricKeys[k]]
    /\ task' = [Disturb({kid}) EXCEPT ![p] =
                  [IdleTask EXCEPT !.pc = "removed", !.kid = kid,
                                   !.ok = asymmetricKeys[kid].present]]
    /\ klast' = [NoKeyStep EXCEPT !.op = "removed", !.kid = kid,
                                  !.found = asymmetricKeys[kid].present]
    /\ UNCHANGED <<symmetricKeys, gateVars, jwks, pop, telemetry, authorityVars, nativeVars>>

\* removeItem has resolved: containsKey is read and its negation returned
RemoveTokenBindingKeyReturn(p) ==
    /\ task[p].pc = "removed"
    /\ LET keyFound == asymmetricKeys[task[p].kid].present
       IN klast' = [NoKeyStep EXCEPT !.op = "removeReturned", !.kid = task[p].kid,
                                     !.found = task[p].ok,
                                     !.result = <<~keyFound>>]
    /\ task' = [task EXCEPT ![p] = IdleTask]
    /\ UNCHANGED <<asymmetricKeys, symmetricKeys, gateVars, jwks, pop, telemetry, authorityVars, nativeVars>>

\* clearKeystore to the await of deleteDatabase on the first store of the cache:
\* the wipe drops both partitions, or fails and drops nothing
ClearKeystoreDelete(p, deleted) ==
    /\ task[p].pc = "idle"
    /\ asymmetricKeys' = DeleteDatabaseAsymmetric(asymmetricKeys, deleted)
    /\ symmetricKeys' = DeleteDatabaseSymmetric(symmetricKeys, deleted)
    /\ task' = [Disturb(Kids) EXCEPT ![p] =
                  [IdleTask EXCEPT !.pc = "cleared", !.ok = deleted]]
    /\ klast' = [NoKeyStep EXCEPT !.op = "cleared", !.found = deleted]
    /\ UNCHANGED <<gateVars, jwks, pop, telemetry, authorityVars, nativeVars>>

\* deleteDatabase has resolved: its result is returned
ClearKeystoreReturn(p) ==
    /\ task[p].pc = "cleared"
    /\ klast' = [NoKeyStep EXCEPT !.op = "clearReturned", !.found = task[p].ok,
                                  !.result = <<ClearKeystoreResult(task[p].ok)>>]
    /\ task' = [task EXCEPT ![p] = IdleTask]
    /\ UNCHANGED <<asymmetricKeys, symmetricKeys, gateVars, jwks, pop, telemetry, authorityVars, nativeVars>>

\* signJwt to the await of getItem, and the check of what it gave: without a
\* pair SigningKeyNotFoundInStorage is thrown
SignJwtLookup(p, kid) ==
    /\ task[p].pc = "idle"
    /\ LET cachedKeyPair == asymmetricKeys[kid]
       IN /\ task' = [task EXCEPT ![p] =
                IF PairFound(cachedKeyPair)
                THEN [IdleTask EXCEPT !.pc = "signing", !.kid = kid,
                                      !.pair = KeysOf(cachedKeyPair)]
                ELSE IdleTask]
          /\ klast' = [NoKeyStep EXCEPT
                         !.op = "signLookup", !.kid = kid, !.pair = cachedKeyPair,
                         !.found = cachedKeyPair.present,
                         !.wasIssued = kid \in issued,
                         !.wasIntact = kid \in intact,
                         !.result = IF PairFound(cachedKeyPair) THEN <<>>
                                    ELSE <<"SigningKeyNotFoundInStorage">>]
    /\ UNCHANGED <<asymmetricKeys, symmetricKeys, gateVars, jwks, pop, telemetry, authorityVars, nativeVars>>

\* faulty variant: the pair is looked up again when the token is made
SignJwtReturn_ReadsAgain(p, payload) ==
    /\ task[p].pc = "signing"
    /\ LET cachedKeyPair == asymmetricKeys[task[p].kid]
       IN klast' = [NoKeyStep EXCEPT
                      !.op = "signed", !.kid = task[p].kid,
                      !.pair = cachedKeyPair, !.found = cachedKeyPair.present,
                      !.input = <<payload>>,
                      !.result = IF PairFound(cachedKeyPair)
                                 THEN SignedJwt(payload, KeysOf(cachedKeyPair))
                                 ELSE <<"SigningKeyNotFoundInStorage">>]
    /\ task' = [task EXCEPT ![p] = IdleTask]
    /\ UNCHANGED <<asymmetricKeys, symmetricKeys, gateVars, jwks, pop, telemetry, authorityVars, nativeVars>>

\* signJwt after the lookup: export, encode, sign with the pair read, return
SignJwtReturn(p, payload) ==
    /\ task[p].pc = "signing"
    /\ klast' = [NoKeyStep EXCEPT !.op = "signed", !.kid = task[p].kid,
                                  !.pair = task[p].pair, !.found = TRUE,
                                  !.input = <<payload>>,
                                  !.result = SignedJwt(payload, task[p].pair)]
    /\ task' = [task EXCEPT ![p] = IdleTask]
    /\ UNCHANGED <<asymmetricKeys, symmetricKeys, gateVars, jwks, pop, telemetry, authorityVars, nativeVars>>

\* faulty variant: the pair read is taken out of the key store
GetAsymmetricPublicKey_Evicts(keyThumbprint) ==
    /\ LET cachedKeyPair == asymmetricKeys[keyThumbprint]
       IN klast' = [NoKeyStep EXCEPT
                      !.op = "publicKey", !.kid = keyThumbprint, !.pair = cachedKeyPair,
                      !.found = cachedKeyPair.present,
                      !.result = IF PairFound(cachedKeyPair)
                                 THEN <<GetJwkString(ExportJwk(cachedKeyPair.publicKey))>>
                                 ELSE <<"SigningKeyNotFoundInStorage">>]
    /\ asymmetricKeys' = [asymmetricKeys EXCEPT ![keyThumbprint] = NoKeyPair]
    /\ UNCHANGED <<symmetricKeys, task, gateVars, jwks, pop, telemetry, authorityVars, nativeVars>>

\* getAsymmetricPublicKey: getItem, the check of what it gave, and the export of
\* the public key as a JWK string (the await after getItem touches no shared state)
GetAsymmetricPublicKey(keyThumbprint) ==
    /\ LET cachedKeyPair == asymmetricKeys[keyThumbprint]
       IN klast' = [NoKeyStep EXCEPT
                      !.op = "publicKey", !.kid = keyThumbprint, !.pair = cachedKeyPair,
                      !.found = cachedKeyPair.present,
                      !.result = IF PairFound(cachedKeyPair)
                                 THEN <<GetJwkString(ExportJwk(cachedKeyPair.publicKey))>>
                                 ELSE <<"SigningKeyNotFoundInStorage">>]
    /\ UNCHANGED <<asymmetricKeys, symmetricKeys, task, gateVars, jwks, pop, telemetry, authorityVars, nativeVars>>

\* BoundTokenResponse.decrypt: the plaintext token response when the binding
\* key is in the key store and the integrity check passes, null otherwise
BoundTokenResponseDecrypt(keyPair, sound) ==
    IF keyPair.present /\ sound
    THEN <<"ServerAuthorizationTokenResponse">>
    ELSE <<"null">>

\* faulty variant: a decryption that gave null is tried once more
DecryptAttempts_RetryOnNull(decrypted) ==
    IF decrypted = <<"null">> THEN 2 ELSE 1

\* decryptBoundTokenResponse: response.decrypt() is called once, whatever it
\* gives
DecryptAttempts(decrypted) == 1

\* decryptBoundTokenResponse: the binding key is looked up in the key store and
\* the response decrypted with it; what decrypt gives is returned
DecryptBoundTokenResponse(kid, sound) ==
    /\ LET decrypted == BoundTokenResponseDecrypt(asymmetricKeys[kid], sound)
       IN klast' = [NoKeyStep EXCEPT
                      !.op = "decrypted", !.kid = kid,
                      !.found = asymmetricKeys[kid].present,
                      !.input = <<sound>>,
                      !.calls = DecryptAttempts(decrypted),
                      !.result = decrypted]
    /\ UNCHANGED <<asymmetricKeys, symmetricKeys, task, gateVars, jwks, pop, telemetry, authorityVars, nativeVars>>

\* ------------------------------------------------------------ history
\* issued: the thumbprints getPublicKeyThumbprint has returned, with no
\* removeTokenBindingKey of them and no clearKeystore since that return;
\* intact: those with no removal since their pair was stored
History ==
    /\ issued' =
          CASE klast'.op = "thumbprint" ->
                  IF Removing(klast'.kid) THEN issued \ {klast'.kid}
                  ELSE issued \cup {klast'.kid}
            [] klast'.op \in {"removed", "removeReturned"} -> issued \ {klast'.kid}
            [] klast'.op \in {"cleared", "clearReturned"} -> {}
            [] OTHER -> issued
    /\ intact' =
          CASE klast'.op = "thumbprint" ->
                  IF klast'.found THEN intact \cup {klast'.kid}
                  ELSE intact \ {klast'.kid}
            [] klast'.op = "removed" -> intact \ {klast'.kid}
            [] klast'.op = "cleared" -> {}
            [] OTHER -> intact

NoHistory == UNCHANGED <<issued, intact>>

\* --------------------------------------------- PopTokenGenerator
\* an optional field of a request or of a payload: undefined, or a value
Undefined == <<>>
Defined(v) == <<v>>

AccessTokens == {"access_token_1", "access_token_2"}

\* resource URLs as their text, split at the delimiters the parser looks for
ResourceUrls ==
    { <<"https", "://", "resource.example", "/", "api", "?", "foo=bar">>,
      <<"https", "://", "resource.example", ":", "8443", "/", "api">> }

\* the requests signPopToken and generateCnf are given
PopRequests ==
    [resourceRequestMethod : {Undefined, Defined("POST")},
     resourceRequestUri : {Undefined} \cup {Defined(u) : u \in ResourceUrls},
     shrClaims : {Undefined, Defined("client_claims_1")},
     shrNonce : {Undefined, Defined("shr_nonce_1")},
     keyThumbprint : Kids]

\* the values createNewGuid of the crypto capability can give
Guids == {"guid-1", "guid-2"}

\* the readings of TimeUtils.nowSeconds
UnixSeconds == {1700000000, 1700000001}

\* where the binding key is kept, as the generateKid test names it
KeyStorageLocation == "key_storage_location"

\* the place of the first occurrence of a delimiter at or after a position,
\* or one past the end
FirstIndex(s, tok, from) ==
    IF \E i \in from..Len(s) : s[i] = tok
    THEN CHOOSE i \in from..Len(s) :
             s[i] = tok /\ \A j \in from..(i - 1) : s[j] # tok
    ELSE Len(s) + 1

\* UrlString.getUrlComponents: scheme, authority, path, and the query string
\* without its question mark
GetUrlComponents(url) ==
    LET a == FirstIndex(url, "://", 1)
        p == FirstIndex(url, "/", a + 1)
        q == FirstIndex(url, "?", p)
    IN [Protocol |-> SubSeq(url, 1, a - 1),
        HostNameAndPort |-> SubSeq(url, a + 1, p - 1),
        AbsolutePath |-> SubSeq(url, p, q - 1),
        QueryString |-> SubSeq(url, q + 1, Len(url))]

\* signPopToken: createNewGuid is called when the request has no shrNonce
GuidCalls(request) == IF request.shrNonce = Undefined THEN 1 ELSE 0

\* faulty variant: the generated GUID is the nonce of every token
ShrNonce_Guid(request, guid) == guid

\* signPopToken: nonce is shrNonce, or the GUID generated
ShrNonce(request, guid) ==
    IF request.shrNonce # Undefined THEN request.shrNonce[1] ELSE guid

\* faulty variant: q is the query string alone
ShrPayload_BareQuery(accessToken, request, nowSeconds, guid) ==
    LET present == request.resourceRequestUri # Undefined
        resourceUrlComponents ==
            IF present THEN GetUrlComponents(request.resourceRequestUri[1])
            ELSE GetUrlComponents(<<>>)
    IN [at |-> accessToken,
        ts |-> nowSeconds,
        m |-> request.resourceRequestMethod,
        u |-> IF present THEN Defined(resourceUrlComponents.HostNameAndPort)
              ELSE Undefined,
        nonce |-> ShrNonce(request, guid),
        p |-> IF present THEN Defined(resourceUrlComponents.AbsolutePath)
              ELSE Undefined,
        q |-> IF present THEN Defined(resourceUrlComponents.QueryString)
              ELSE Undefined,
        client_claims |-> request.shrClaims]

\* signPopToken: the payload handed to signJwt
ShrPayload(accessToken, request, nowSeconds, guid) ==
    LET present == request.resourceRequestUri # Undefined
        resourceUrlComponents ==
            IF present THEN GetUrlComponents(request.resourceRequestUri[1])
            ELSE GetUrlComponents(<<>>)
    IN [at |-> accessToken,
        ts |-> nowSeconds,
        m |-> request.resourceRequestMethod,
        u |-> IF present THEN Defined(resourceUrlComponents.HostNameAndPort)
              ELSE Undefined,
        nonce |-> ShrNonce(request, guid),
        p |-> IF present THEN Defined(resourceUrlComponents.AbsolutePath)
              ELSE Undefined,
        q |-> IF present
              THEN Defined(<< <<>>, resourceUrlComponents.QueryString >>)
              ELSE Undefined,
        client_claims |-> request.shrClaims]

\* signPopToken: the kid handed to signJwt
ShrKid(request) == request.keyThumbprint

\* base64Encode and base64Decode of the crypto capability
Base64Encode(text) == <<"base64", text>>
Base64Decode(encoded) == encoded[2]

\* generateKid: the object made of the thumbprint getPublicKeyThumbprint gave
ReqCnf(kidThumbprint) ==
    [kid |-> kidThumbprint, keyStorageLocation |-> KeyStorageLocation]

\* faulty variant: the string is made of an object with another kid
ReqCnfString_OtherKid(kidThumbprint) ==
    Base64Encode(JsonStringify(
        ReqCnf(CHOOSE k \in Kids : k # kidThumbprint)))

\* generateCnf: the object of generateKid, as JSON, base64 encoded
ReqCnfString(kidThumbprint) ==
    Base64Encode(JsonStringify(ReqCnf(kidThumbprint)))

\* no call of the PoP token generator
NoPop == [pc |-> "none"]

\* a call of the PoP token generator about to be made: its inputs, and what it
\* will have made
ReadyPop(accessToken, request, nowSeconds) ==
    [pc |-> "ready", accessToken |-> accessToken, request |-> request,
     nowSeconds |-> nowSeconds, guid |-> "", guids |-> 0, kid |-> <<>>,
     payload |-> <<>>, thumbprint |-> <<>>, reqCnf |-> <<>>,
     reqCnfString |-> <<>>]

\* PopTokenGenerator.signPopToken, up to its call of signJwt
SignPopToken(guid) ==
    /\ pop.pc = "ready"
    /\ pop' = [pop EXCEPT
                 !.pc = "signJwtCalled",
                 !.guids = GuidCalls(pop.request),
                 !.guid = IF GuidCalls(pop.request) > 0 THEN guid ELSE "",
                 !.kid = ShrKid(pop.request),
                 !.payload = ShrPayload(pop.accessToken, pop.request,
                                        pop.nowSeconds, guid)]
    /\ UNCHANGED <<gateVars, keyVars, jwks, telemetry, authorityVars, nativeVars>>

\* PopTokenGenerator.generateKid; getPublicKeyThumbprint gives kidThumbprint
GenerateKid(kidThumbprint) ==
    /\ pop.pc = "ready"
    /\ pop' = [pop EXCEPT !.pc = "kidGenerated",
                          !.thumbprint = kidThumbprint,
                          !.reqCnf = ReqCnf(kidThumbprint)]
    /\ UNCHANGED <<gateVars, keyVars, jwks, telemetry, authorityVars, nativeVars>>

\* PopTokenGenerator.generateCnf; getPublicKeyThumbprint gives kidThumbprint
GenerateCnf(kidThumbprint) ==
    /\ pop.pc = "ready"
    /\ pop' = [pop EXCEPT !.pc = "cnfGenerated",
                          !.thumbprint = kidThumbprint,
                          !.reqCnf = ReqCnf(kidThumbprint),
                          !.reqCnfString = ReqCnfString(kidThumbprint)]
    /\ UNCHANGED <<gateVars, keyVars, jwks, telemetry, authorityVars, nativeVars>>

\* --------------------------------------------- BaseClient.updateAuthority
MaxAuthorities == 3

CloudInstanceHostnames ==
    {"login.microsoftonline.us", "login.partner.microsoftonline.cn"}

Tenants == {"common", "contoso"}

\* `https://${cloudInstanceHostname}/${this.authority.tenant}/`
CloudInstanceAuthorityUri(cloudInstanceHostname, tenant) ==
    "https://" \o cloudInstanceHostname \o "/" \o tenant \o "/"

\* an Authority object: id tells one object from another
AuthorityObject(id, hostname, tenant) ==
    [id |-> id,
     canonicalAuthority |-> CloudInstanceAuthorityUri(hostname, tenant),
     tenant |-> tenant]

\* this.config.authOptions.authority, for a tenant
DefaultAuthority(tenant) == AuthorityObject(0, "login.microsoftonline.com", tenant)

\* what createDiscoveredInstance throws when endpoint discovery fails
DiscoveryFailures ==
    {ErrorObject("ClientAuthError", "endpoints_resolution_error"),
     ErrorObject("ClientConfigurationError", "untrusted_authority")}

IdleUpdate == [pc |-> "idle"]

NoUpdateStep == [op |-> "none", call |-> 0, thrown |-> NoError]

\* the object createDiscoveredInstance resolves with: a new Authority for the
\* uri it was given
DiscoveredInstance(current, update) ==
    AuthorityObject(current.id + 1, update.cloudInstanceHostname, update.tenant)

\* faulty variant: the new authority is assigned though discovery failed
AuthorityAfterFailure_Assigns(current, update) ==
    DiscoveredInstance(current, update)

\* this.authority when the awaited createDiscoveredInstance has thrown: the
\* assignment after the await is not reached
AuthorityAfterFailure(current, update) == current

\* updateAuthority up to its await: the uri is built from the hostname given
\* and the tenant of the authority the client has now
UpdateAuthorityBegin(c, cloudInstanceHostname) ==
    /\ updateAuthority[c] = IdleUpdate
    /\ authority.id
          + Cardinality({d \in Calls : updateAuthority[d].pc = "discovering"})
          < MaxAuthorities
    /\ updateAuthority' =
          [updateAuthority EXCEPT ![c] =
              [pc |-> "discovering",
               cloudInstanceHostname |-> cloudInstanceHostname,
               tenant |-> authority.tenant]]
    /\ alast' = [op |-> "called", call |-> c, thrown |-> NoError]
    /\ UNCHANGED <<authority, gateVars, keyVars, jwks, pop, telemetry,
                   nativeVars>>

\* createDiscoveredInstance has resolved: this.authority = cloudInstanceAuthority
UpdateAuthorityResolve(c) ==
    /\ updateAuthority[c].pc = "discovering"
    /\ authority' = DiscoveredInstance(authority, updateAuthority[c])
    /\ updateAuthority' = [updateAuthority EXCEPT ![c] = IdleUpdate]
    /\ alast' = [op |-> "resolved", call |-> c, thrown |-> NoError]
    /\ UNCHANGED <<gateVars, keyVars, jwks, pop, telemetry, nativeVars>>

\* createDiscoveredInstance has thrown: updateAuthority throws the same
UpdateAuthorityReject(c, error) ==
    /\ updateAuthority[c].pc = "discovering"
    /\ authority' = AuthorityAfterFailure(authority, updateAuthority[c])
    /\ updateAuthority' = [updateAuthority EXCEPT ![c] = IdleUpdate]
    /\ alast' = [op |-> "rejected", call |-> c, thrown |-> error]
    /\ UNCHANGED <<gateVars, keyVars, jwks, pop, telemetry, nativeVars>>

\* --------------------------------------------- native auth
\* nothing called on the client's authority nor on the native-auth application
IdleClient ==
    /\ authority = DefaultAuthority("common")
    /\ updateAuthority = [c \in Calls |-> IdleUpdate]
    /\ alast = NoUpdateStep
    /\ app = [pc |-> "none"]
    /\ signIn = [pc |-> "none"]

\* !v of an optional string: undefined and "" are falsy
Falsy(v) == v = Undefined \/ v = Defined("")

\* v ?? default
Nullish(v, default) == IF v = Undefined THEN default ELSE v[1]

NativeAuthConfigurations ==
    {[clientId |-> "test-client-id",
      authority |-> "https://login.microsoftonline.com/common/",
      challengeTypes |-> Defined(<<"test-challenge-type">>)],
     [clientId |-> "other-client-id",
      authority |-> "https://contoso.ciamlogin.com/",
      challengeTypes |-> Undefined]}

\* new NativeAuthStandardController(new NativeAuthOperatingContext(config))
NativeAuthStandardController(id, config) == [id |-> id, config |-> config]

\* faulty variant: the application keeps the controller it was handed
NativeAuthControllerField_Injected(controller, nativeAuthController) ==
    Nullish(controller, nativeAuthController)

\* this.nativeAuthController = nativeAuthController
NativeAuthControllerField(controller, nativeAuthController) ==
    nativeAuthController

\* the constructor: super(config, controller || nativeAuthController)
NativeAuthPublicClientApplication(config, controller) ==
    LET nativeAuthController ==
            NativeAuthStandardController("nativeAuthController", config)
    IN  [pc |-> "constructed",
         config |-> config,
         injected |-> controller,
         controller |-> Nullish(controller, nativeAuthController),
         nativeAuthController |->
             NativeAuthControllerField(controller, nativeAuthController)]

\* SignInInputs, SignUpInputs, ResetPasswordInputs: each member missing,
\* empty, or given
ActionInputs ==
    [username : {Undefined, Defined(""), Defined("user@contoso.com")},
     password : {Undefined, Defined(""), Defined("test-password")},
     correlationId : {Undefined, Defined(""), Defined("correlation-id")},
     scopes : {Undefined, Defined(<<"User.Read">>)}]

\* actionOptions.correlationId || this.browserCrypto.createNewGuid()
GetCorrelationId(actionOptions, guid) ==
    IF Falsy(actionOptions.correlationId)
    THEN guid
    ELSE actionOptions.correlationId[1]

\* new InvalidArgumentError(argName, correlationId)
InvalidArgumentError(argName, correlationId) ==
    [class |-> "InvalidArgumentError", argName |-> argName,
     correlationId |-> Defined(correlationId)]

\* UnexpectedError's constructor; JSON.stringify(errorData) is that of an
\* object holding one member, error
UnexpectedError(errorData, correlationId) ==
    [class |-> "UnexpectedError",
     error |-> "unexpected_error",
     errorDescription |->
         CASE errorData.type = "Error" -> errorData.message
           [] errorData.type = "string" -> errorData.message
           [] errorData.type = "object" ->
                  "{\"error\":\"" \o errorData.message \o "\"}"
           [] OTHER -> "An unexpected error occurred.",
     correlationId |-> correlationId]

\* throw new UnexpectedError("Unknow SignInStartResult type")
UnknownStartResultError ==
    UnexpectedError([type |-> "string",
                     message |-> "Unknow SignInStartResult type"], Undefined)

\* what the sign-in client's start and submitPassword may throw
SignInClientErrors ==
    {[class |-> "UserNotFoundError", error |-> "user_not_found"],
     [class |-> "TypeError", error |-> "Failed to fetch"]}

\* what the sign-in client's start may resolve with
SignInStartResults ==
    {[class |-> class, continuationToken |-> token] :
        class \in {"SignInWithContinuationTokenResult",
                   "SignInCodeSendResponse"},
        token \in {"continuation-token-1", "continuation-token-2"}}
    \cup {[class |-> "Object", continuationToken |-> ""]}

\* what the sign-in client's submitPassword may resolve with: a result with an
\* authentication result, or one without
SignInCompletedResults ==
    {[authenticationResult |-> Defined([account |-> a])] :
        a \in {"account-1", "account-2"}}
    \cup {[authenticationResult |-> Undefined]}

\* a ResultBase: its data, its next state, its error
NoResult ==
    [class |-> "", data |-> Undefined, state |-> Undefined, error |-> Undefined]

\* new SignInResult(resultData, nextState)
NewResult(class, resultData, nextState) ==
    [class |-> class, data |-> resultData, state |-> nextState,
     error |-> Undefined]

\* SignInResult.createWithError(error), and the same of the other results
CreateWithError(class, error) ==
    [class |-> class, data |-> Undefined, state |-> Undefined,
     error |-> Defined(error)]

\* new SignInPasswordRequiredState(...) and new SignInCodeRequiredState(...)
SignInState(class, c, continuationToken) ==
    [class |-> class, correlationId |-> c.correlationId,
     continuationToken |-> continuationToken,
     clientId |-> c.controller.config.clientId,
     scopes |-> c.options.scopes]

\* new AccountInfo(account, correlationId, this.nativeAuthConfig)
AccountInfo(account, c) ==
    [class |-> "AccountInfo", account |-> account,
     correlationId |-> c.correlationId,
     clientId |-> c.controller.config.clientId]

\* new SignInStartParams(...)
SignInStartParams(c) ==
    [authorityUrl |-> c.controller.config.authority,
     clientId |-> c.controller.config.clientId,
     correlationId |-> c.correlationId,
     challengeTypes |-> Nullish(c.controller.config.challengeTypes, <<>>),
     scopes |-> Nullish(c.options.scopes, <<>>),
     username |-> c.options.username,
     password |-> c.options.password]

\* new SignInSubmitPasswordParams(...)
SignInSubmitPasswordParams(c, continuationToken) ==
    [authorityUrl |-> c.controller.config.authority,
     clientId |-> c.controller.config.clientId,
     correlationId |-> c.correlationId,
     challengeTypes |-> Nullish(c.controller.config.challengeTypes, <<>>),
     scopes |-> Nullish(c.options.scopes, <<>>),
     continuationToken |-> continuationToken,
     password |-> c.options.password]

\* a call of the controller when its correlation id is made
ControllerCall(controller, method, actionOptions, guid) ==
    [pc |-> "entered",
     method |-> method,
     controller |-> controller,
     options |-> actionOptions,
     createdGuid |-> IF Falsy(actionOptions.correlationId)
                     THEN Defined(guid) ELSE Undefined,
     correlationId |-> GetCorrelationId(actionOptions, guid),
     calls |-> <<>>,
     startResult |-> Undefined,
     thrown |-> Undefined,
     result |-> NoResult]

Returned(c, result) == [c EXCEPT !.pc = "returned", !.result = result]

\* faulty variant: an empty username is let through
UsernameMissing_UndefinedOnly(actionOptions) ==
    actionOptions.username = Undefined

\* !signInOptions.username
UsernameMissing(actionOptions) == Falsy(actionOptions.username)

\* faulty variant: the error is thrown on to the caller
Caught_Rethrows(c, error) ==
    [c EXCEPT !.pc = "rejected", !.thrown = Defined(error)]

\* catch (error) { return SignInResult.createWithError(error); }
Caught(c, error) ==
    [c EXCEPT !.pc = "returned",
              !.thrown = Defined(error),
              !.result = CreateWithError("SignInResult", error)]

\* faulty variant: a password given is submitted whatever start resolved with
SubmitsPassword_AnyResult(startResult, password) == ~Falsy(password)

\* the branch that calls submitPassword: a continuation token came back and
\* signInOptions.password is truthy
SubmitsPassword(startResult, password) ==
    /\ startResult.class = "SignInWithContinuationTokenResult"
    /\ ~Falsy(password)

\* the call of a client operation, kept in the order made
ClientCall(c, op, params) ==
    [c EXCEPT !.pc = op,
              !.calls = Append(c.calls, [op |-> op, params |-> params])]

\* NativeAuthStandardController.signIn up to its first await
SignInBegin(controller, signInOptions, guid) ==
    /\ signIn.pc \in {"none", "returned", "rejected"}
    /\ LET c == ControllerCall(controller, "signIn", signInOptions, guid)
       IN  signIn' =
              IF UsernameMissing(signInOptions)
              THEN Returned(c, CreateWithError("SignInResult",
                          InvalidArgumentError("username", c.correlationId)))
              ELSE ClientCall(c, "start", SignInStartParams(c))
    /\ UNCHANGED <<app, gateVars, keyVars, jwks, pop, telemetry, authorityVars>>

\* signIn from the resolved start to its next await or its return
SignInStartResolves(startResult) ==
    /\ signIn.pc = "start"
    /\ LET c == [signIn EXCEPT !.startResult = Defined(startResult)]
       IN  signIn' =
              IF SubmitsPassword(startResult, c.options.password)
              THEN ClientCall(c, "submitPassword",
                      SignInSubmitPasswordParams(c,
                          startResult.continuationToken))
              ELSE IF startResult.class = "SignInWithContinuationTokenResult"
              THEN Returned(c, NewResult("SignInResult", Undefined,
                      Defined(SignInState("SignInPasswordRequiredState", c,
                                  startResult.continuationToken))))
              ELSE IF startResult.class = "SignInCodeSendResponse"
              THEN Returned(c, NewResult("SignInResult", Undefined,
                      Defined(SignInState("SignInCodeRequiredState", c,
                                  startResult.continuationToken))))
              ELSE Caught(c, UnknownStartResultError)
    /\ UNCHANGED <<app, gateVars, keyVars, jwks, pop, telemetry, authorityVars>>

\* signIn when the awaited start has thrown
SignInStartThrows(error) ==
    /\ signIn.pc = "start"
    /\ signIn' = Caught(signIn, error)
    /\ UNCHANGED <<app, gateVars, keyVars, jwks, pop, telemetry, authorityVars>>

\* signIn from the resolved submitPassword to its return: reading the
\* account of a missing authentication result throws a TypeError
SignInSubmitPasswordResolves(completedResult) ==
    /\ signIn.pc = "submitPassword"
    /\ signIn' =
          IF completedResult.authenticationResult = Undefined
          THEN Caught(signIn,
                  [class |-> "TypeError",
                   error |-> "Cannot read properties of undefined"])
          ELSE Returned(signIn, NewResult("SignInResult",
                  Defined(AccountInfo(
                      completedResult.authenticationResult[1].account,
                      signIn)),
                  Undefined))
    /\ UNCHANGED <<app, gateVars, keyVars, jwks, pop, telemetry, authorityVars>>

\* signIn when the awaited submitPassword has thrown
SignInSubmitPasswordThrows(error) ==
    /\ signIn.pc = "submitPassword"
    /\ signIn' = Caught(signIn, error)
    /\ UNCHANGED <<app, gateVars, keyVars, jwks, pop, telemetry, authorityVars>>

\* signUp and resetPassword: the username check, then throw new Error(`Method
\* not implemented with Parameter ${correlationId}.`), which rejects the promise
NotImplementedAction(controller, method, resultClass, actionOptions, guid) ==
    /\ signIn.pc \in {"none", "returned", "rejected"}
    /\ LET c == ControllerCall(controller, method, actionOptions, guid)
       IN  signIn' =
              IF UsernameMissing(actionOptions)
              THEN Returned(c, CreateWithError(resultClass,
                          InvalidArgumentError("username", c.correlationId)))
              ELSE [c EXCEPT
                      !.pc = "rejected",
                      !.thrown = Defined(
                          [class |-> "Error",
                           error |-> "Method not implemented",
                           correlationId |-> Defined(c.correlationId)])]
    /\ UNCHANGED <<app, gateVars, keyVars, jwks, pop, telemetry, authorityVars>>

SignUp(controller, signUpOptions, guid) ==
    NotImplementedAction(controller, "signUp", "SignUpResult",
                         signUpOptions, guid)

ResetPassword(controller, resetPasswordOptions, guid) ==
    NotImplementedAction(controller, "resetPassword",
                         "ResetPasswordStartResult", resetPasswordOptions, guid)

\* NativeAuthPublicClientApplication.signIn
ApplicationSignIn(signInOptions, guid) ==
    SignInBegin(app.nativeAuthController, signInOptions, guid)

Init ==
    /\ now = 0
    /\ throttlingCache = [t \in Thumbprints |-> NoEntry]
    /\ call = [c \in Calls |-> IdleCall]
    /\ last = NoStep
    /\ maxWritten = [t \in Thumbprints |-> 0]
    /\ asymmetricKeys = [k \in Kids |-> NoKeyPair]
    /\ symmetricKeys = {}
    /\ task = [p \in Tasks |-> IdleTask]
    /\ klast = NoKeyStep
    /\ issued = {}
    /\ intact = {}
    /\ jwks = NoJwks
    /\ pop = NoPop
    /\ telemetry = NoTelemetry
    /\ IdleClient

\* the body a token endpoint sends with a status: a server error says the
\* service is unavailable, the other responses carry the grant's error
BodyOf(status) ==
    IF status >= 500
    THEN CHOOSE b \in Bodies : b.error = "temporarily_unavailable"
    ELSE CHOOSE b \in Bodies : b.error = "invalid_grant"

\* sendPostRequest called without executePostToTokenEndpoint around it
Next ==
    \/ \E c \in Calls, t \in Thumbprints :
          SendPostRequestBegin(c, t) /\ UNCHANGED telemetry
    \/ \E c \in Calls, st \in Statuses, ra \in RetryAfterValues :
          SendPostRequestResponse(c, NetworkResponse(st, ra, BodyOf(st)))
             /\ UNCHANGED telemetry
    \/ \E c \in Calls, f \in NetworkFailureClasses :
          SendPostRequestFailure(c, f) /\ UNCHANGED telemetry
    \/ Tick /\ UNCHANGED telemetry

Spec == Init /\ [][Next]_vars

\* the thumbprint of the calls whose network call may fail in every way
FailingThumbprints == {"T1"}

NextFailure ==
    \/ \E c \in Calls, t \in FailingThumbprints :
          SendPostRequestBegin(c, t) /\ UNCHANGED telemetry
    \/ \E c \in Calls, st \in Statuses, ra \in RetryAfterValues, b \in Bodies :
          SendPostRequestResponse(c, NetworkResponse(st, ra, b))
             /\ UNCHANGED telemetry
    \/ \E c \in Calls, f \in NetworkFailures :
          SendPostRequestFailure(c, f) /\ UNCHANGED telemetry
    \/ Tick /\ UNCHANGED telemetry

\* calls on one thumbprint, with every failure of the network call
SpecFailure == Init /\ [][NextFailure]_vars

\* the thumbprint the caller keeps retrying
RetriedThumbprints == {"T1"}

NextRetry ==
    \/ \E c \in Calls, t \in RetriedThumbprints :
          SendPostRequestBegin(c, t) /\ UNCHANGED telemetry
    \/ \E c \in Calls, st \in Statuses, ra \in RetryAfterValues, b \in Bodies :
          SendPostRequestResponse(c, NetworkResponse(st, ra, b))
             /\ UNCHANGED telemetry
    \/ \E c \in Calls, f \in NetworkFailureClasses :
          SendPostRequestFailure(c, f) /\ UNCHANGED telemetry
    \/ Tick /\ UNCHANGED telemetry

\* time keeps advancing (up to the horizon of the model)
TimeAdvances == WF_vars(Tick /\ UNCHANGED telemetry)

\* the caller keeps retrying: whenever a call can be started again and again,
\* one is started
CallerRetries ==
    \A t \in RetriedThumbprints :
        SF_vars(\E c \in Calls : SendPostRequestBegin(c, t) /\ UNCHANGED telemetry)

\* a caller that keeps retrying one thumbprint while time advances
SpecRetry ==
    Init /\ [][NextRetry]_vars /\ TimeAdvances /\ CallerRetries

\* the thumbprint of the token requests made through executePostToTokenEndpoint
TokenRequestThumbprints == {"T1"}

NextTelemetry ==
    \/ \E c \in Calls, t \in TokenRequestThumbprints, m \in BOOLEAN :
          ExecutePostToTokenEndpointBegin(c, t, m)
    \/ \E c \in Calls, st \in Statuses, ra \in RetryAfterValues, b \in Bodies,
          m \in BOOLEAN :
          ExecutePostToTokenEndpointResponse(c, NetworkResponse(st, ra, b), m)
    \/ \E c \in Calls, f \in NetworkFailures, m \in BOOLEAN :
          ExecutePostToTokenEndpointFailure(c, f, m)
    \/ Tick /\ telemetry' = NoTelemetry

\* the token requests of clients with and without a server telemetry manager
SpecTelemetry == Init /\ [][NextTelemetry]_vars

NextKeys ==
    \/ \E p \in Tasks, r \in SignedHttpRequestParameters, n \in KeyIds,
          o \in GenerationOutcomes :
          GetPublicKeyThumbprintStore(p, r, n, o) /\ History
    \/ \E o \in GenerationOutcomes : GetPublicKeyThumbprintFails(o) /\ History
    \/ \E p \in Tasks : GetPublicKeyThumbprintReturn(p) /\ History
    \/ \E p \in Tasks, kid \in Kids : RemoveTokenBindingKeyRemove(p, kid) /\ History
    \/ \E p \in Tasks : RemoveTokenBindingKeyReturn(p) /\ History
    \/ \E p \in Tasks, deleted \in BOOLEAN : ClearKeystoreDelete(p, deleted) /\ History
    \/ \E p \in Tasks : ClearKeystoreReturn(p) /\ History
    \/ \E p \in Tasks, kid \in Kids : SignJwtLookup(p, kid) /\ History
    \/ \E p \in Tasks, payload \in Payloads : SignJwtReturn(p, payload) /\ History

\* the key store with the calls that may overlap, and the history of the
\* thumbprints issued
SpecKeys == Init /\ [][NextKeys]_vars

\* a key store that was persisted with a symmetric key in it
InitPersisted ==
    /\ now = 0
    /\ throttlingCache = [t \in Thumbprints |-> NoEntry]
    /\ call = [c \in Calls |-> IdleCall]
    /\ last = NoStep
    /\ maxWritten = [t \in Thumbprints |-> 0]
    /\ asymmetricKeys = [k \in Kids |-> NoKeyPair]
    /\ symmetricKeys = SymmetricKeyIds
    /\ task = [p \in Tasks |-> IdleTask]
    /\ klast = NoKeyStep
    /\ issued = {}
    /\ intact = {}
    /\ jwks = NoJwks
    /\ pop = NoPop
    /\ telemetry = NoTelemetry
    /\ IdleClient

NextStore ==
    \/ \E p \in Tasks, r \in SignedHttpRequestParameters, n \in KeyIds,
          o \in GenerationOutcomes :
          GetPublicKeyThumbprintStore(p, r, n, o) /\ NoHistory
    \/ \E o \in GenerationOutcomes : GetPublicKeyThumbprintFails(o) /\ NoHistory
    \/ \E p \in Tasks : GetPublicKeyThumbprintReturn(p) /\ NoHistory
    \/ \E p \in Tasks, kid \in Kids : RemoveTokenBindingKeyRemove(p, kid) /\ NoHistory
    \/ \E p \in Tasks : RemoveTokenBindingKeyReturn(p) /\ NoHistory
    \/ \E p \in Tasks, deleted \in BOOLEAN : ClearKeystoreDelete(p, deleted) /\ NoHistory
    \/ \E p \in Tasks : ClearKeystoreReturn(p) /\ NoHistory
    \/ \E p \in Tasks, kid \in Kids : SignJwtLookup(p, kid) /\ NoHistory
    \/ \E p \in Tasks, payload \in Payloads : SignJwtReturn(p, payload) /\ NoHistory
    \/ \E kid \in Kids : GetAsymmetricPublicKey(kid) /\ NoHistory
    \/ \E kid \in Kids, sound \in BOOLEAN :
          DecryptBoundTokenResponse(kid, sound) /\ NoHistory

\* the key store with every operation of CryptoOps
SpecStore == InitPersisted /\ [][NextStore]_vars

\* a key store as completed getPublicKeyThumbprint calls leave it, and no call
\* in flight: under a thumbprint nothing, or the pair of that thumbprint with
\* the request it was made for
InitStored ==
    /\ now = 0
    /\ throttlingCache = [t \in Thumbprints |-> NoEntry]
    /\ call = [c \in Calls |-> IdleCall]
    /\ last = NoStep
    /\ maxWritten = [t \in Thumbprints |-> 0]
    /\ asymmetricKeys \in
          {store \in
              [Kids -> {NoKeyPair} \cup
                       {CachedKeyPair(GenerateKeyPair(n, EXTRACTABLE), r) :
                           n \in KeyIds, r \in SignedHttpRequestParameters}] :
              \A k \in Kids :
                 store[k].present =>
                    StorageKey([publicKey |-> store[k].publicKey,
                                privateKey |-> store[k].privateKey]) = k}
    /\ symmetricKeys = {}
    /\ task = [p \in Tasks |-> IdleTask]
    /\ klast = NoKeyStep
    /\ issued = {}
    /\ intact = {}
    /\ jwks = NoJwks
    /\ pop = NoPop
    /\ telemetry = NoTelemetry
    /\ IdleClient

\* signJwt calls among removeTokenBindingKey and clearKeystore calls
NextSignRemove ==
    \/ \E p \in Tasks, kid \in Kids : RemoveTokenBindingKeyRemove(p, kid) /\ NoHistory
    \/ \E p \in Tasks : RemoveTokenBindingKeyReturn(p) /\ NoHistory
    \/ \E p \in Tasks, deleted \in BOOLEAN : ClearKeystoreDelete(p, deleted) /\ NoHistory
    \/ \E p \in Tasks : ClearKeystoreReturn(p) /\ NoHistory
    \/ \E p \in Tasks, kid \in Kids : SignJwtLookup(p, kid) /\ NoHistory
    \/ \E p \in Tasks, payload \in Payloads : SignJwtReturn(p, payload) /\ NoHistory

SpecSignRemove == InitStored /\ [][NextSignRemove]_vars

\* two public JWKs as exportJwk gave them
InitThumbprint ==
    /\ now = 0
    /\ throttlingCache = [t \in Thumbprints |-> NoEntry]
    /\ call = [c \in Calls |-> IdleCall]
    /\ last = NoStep
    /\ maxWritten = [t \in Thumbprints |-> 0]
    /\ asymmetricKeys = [k \in Kids |-> NoKeyPair]
    /\ symmetricKeys = {}
    /\ task = [p \in Tasks |-> IdleTask]
    /\ klast = NoKeyStep
    /\ issued = {}
    /\ intact = {}
    /\ jwks \in {[NoJwks EXCEPT !.pc = "exported", !.first = a, !.second = b] :
                    a \in PublicJwks, b \in PublicJwks}
    /\ pop = NoPop
    /\ telemetry = NoTelemetry
    /\ IdleClient

\* the thumbprint step of getPublicKeyThumbprint, for each of the two JWKs
HashPublicJwks ==
    /\ jwks.pc = "exported"
    /\ jwks' = [jwks EXCEPT !.pc = "hashed",
                            !.firstHash = JwkThumbprint(jwks.first),
                            !.secondHash = JwkThumbprint(jwks.second)]
    /\ UNCHANGED <<gateVars, keyVars, pop, telemetry, authorityVars, nativeVars>>

\* the thumbprint is computed once more for the first JWK
HashPublicJwkAgain ==
    /\ jwks.pc = "hashed"
    /\ jwks' = [jwks EXCEPT !.pc = "rehashed",
                            !.secondHash = JwkThumbprint(jwks.first)]
    /\ UNCHANGED <<gateVars, keyVars, pop, telemetry, authorityVars, nativeVars>>

NextThumbprint == HashPublicJwks \/ HashPublicJwkAgain

\* the thumbprint computation of getPublicKeyThumbprint on its own
SpecThumbprint == InitThumbprint /\ [][NextThumbprint]_vars

\* an access token, a request and a clock reading for the PoP token generator
InitPop ==
    /\ now = 0
    /\ throttlingCache = [t \in Thumbprints |-> NoEntry]
    /\ call = [c \in Calls |-> IdleCall]
    /\ last = NoStep
    /\ maxWritten = [t \in Thumbprints |-> 0]
    /\ asymmetricKeys = [k \in Kids |-> NoKeyPair]
    /\ symmetricKeys = {}
    /\ task = [p \in Tasks |-> IdleTask]
    /\ klast = NoKeyStep
    /\ issued = {}
    /\ intact = {}
    /\ jwks = NoJwks
    /\ pop \in {ReadyPop(at, r, s) :
                   at \in AccessTokens, r \in PopRequests, s \in UnixSeconds}
    /\ telemetry = NoTelemetry
    /\ IdleClient

NextPop ==
    \/ \E guid \in Guids : SignPopToken(guid)
    \/ \E t \in Kids : GenerateKid(t)
    \/ \E t \in Kids : GenerateCnf(t)

\* the PoP token generator on its own
SpecPop == InitPop /\ [][NextPop]_vars

\* updateAuthority calls on a client whose authority has either tenant
InitAuthority ==
    /\ now = 0
    /\ throttlingCache = [t \in Thumbprints |-> NoEntry]
    /\ call = [c \in Calls |-> IdleCall]
    /\ last = NoStep
    /\ maxWritten = [t \in Thumbprints |-> 0]
    /\ asymmetricKeys = [k \in Kids |-> NoKeyPair]
    /\ symmetricKeys = {}
    /\ task = [p \in Tasks |-> IdleTask]
    /\ klast = NoKeyStep
    /\ issued = {}
    /\ intact = {}
    /\ jwks = NoJwks
    /\ pop = NoPop
    /\ telemetry = NoTelemetry
    /\ authority \in {DefaultAuthority(t) : t \in Tenants}
    /\ updateAuthority = [c \in Calls |-> IdleUpdate]
    /\ alast = NoUpdateStep
    /\ app = [pc |-> "none"]
    /\ signIn = [pc |-> "none"]

NextAuthority ==
    \/ \E c \in Calls, h \in CloudInstanceHostnames : UpdateAuthorityBegin(c, h)
    \/ \E c \in Calls : UpdateAuthorityResolve(c)
    \/ \E c \in Calls, e \in DiscoveryFailures : UpdateAuthorityReject(c, e)

SpecAuthority == InitAuthority /\ [][NextAuthority]_vars

\* a native-auth application constructed from either configuration, without
\* a controller handed in or with one made elsewhere from the other client id
InitNativeAuth ==
    /\ now = 0
    /\ throttlingCache = [t \in Thumbprints |-> NoEntry]
    /\ call = [c \in Calls |-> IdleCall]
    /\ last = NoStep
    /\ maxWritten = [t \in Thumbprints |-> 0]
    /\ asymmetricKeys = [k \in Kids |-> NoKeyPair]
    /\ symmetricKeys = {}
    /\ task = [p \in Tasks |-> IdleTask]
    /\ klast = NoKeyStep
    /\ issued = {}
    /\ intact = {}
    /\ jwks = NoJwks
    /\ pop = NoPop
    /\ telemetry = NoTelemetry
    /\ authority = DefaultAuthority("common")
    /\ updateAuthority = [c \in Calls |-> IdleUpdate]
    /\ alast = NoUpdateStep
    /\ app \in {NativeAuthPublicClientApplication(config, controller) :
                   config \in NativeAuthConfigurations,
                   controller \in {Undefined}
                       \cup {Defined(NativeAuthStandardController(
                                        "controller", c)) :
                                c \in {d \in NativeAuthConfigurations :
                                          d.clientId = "other-client-id"}}}
    /\ signIn = [pc |-> "none"]

NextNativeAuth ==
    \/ \E o \in ActionInputs, g \in Guids : ApplicationSignIn(o, g)
    \/ \E r \in SignInStartResults : SignInStartResolves(r)
    \/ \E e \in SignInClientErrors : SignInStartThrows(e)
    \/ \E r \in SignInCompletedResults : SignInSubmitPasswordResolves(r)
    \/ \E e \in SignInClientErrors : SignInSubmitPasswordThrows(e)
    \/ \E o \in ActionInputs, g \in Guids :
          SignUp(app.nativeAuthController, o, g)
    \/ \E o \in ActionInputs, g \in Guids :
          ResetPassword(app.nativeAuthController, o, g)

SpecNativeAuth == InitNativeAuth /\ [][NextNativeAuth]_vars

\* ------------------------------------------------ the throttling gate
LiveEntry(e) == e.present /\ e.throttleTime > now
StaleEntry(e) == e.present /\ e.throttleTime < now
SignalIn(o) == o.status = 429 \/ o.status >= 500 \/ o.retryAfter # NoHeader
Awaiting == {c \in Calls : call[c].pc = "awaiting"}

\* C1: a sendPostRequest whose pre-flight finds, for its thumbprint, an entry
\* whose throttleTime is in the future fails with a throttling error carrying the
\* cached error, errorCode and subError, and the network client is not invoked.
C1_ThrottledCallIsRejected ==
    [][ (last'.op = "begin" /\ LiveEntry(throttlingCache[last'.thumbprint])) =>
          LET e == throttlingCache[last'.thumbprint]
          IN /\ last'.outcome.kind = "throttled"
             /\ last'.outcome.error = e.error
             /\ last'.outcome.errorCode = e.errorCode
             /\ last'.outcome.subError = e.subError
             /\ last'.net = 0
             /\ call' = call ]_vars

C1_Witness ==
    /\ last.op = "begin"
    /\ last.outcome.kind = "throttled"
    /\ last.outcome.error = "temporarily_unavailable"
    /\ last.net = 0
    /\ LiveEntry(throttlingCache[last.thumbprint])

\* C2 as stated: a call whose pre-flight runs after an entry with a future
\* throttleTime was written for its thumbprint, and before that time has passed,
\* is rejected and never reaches the network.
C2_RejectedUntilWrittenTimePassed ==
    (last.op = "begin" /\ last.owed) =>
        (last.outcome.kind = "throttled" /\ last.net = 0)

\* C2 amended: with calls interleaved at the awaited network call, a call whose
\* pre-flight runs while the cache holds, for its thumbprint, an entry whose
\* throttleTime is in the future is rejected and never reaches the network, and a
\* call that passes pre-flight dispatches its network call in the same step.
C2_RejectedWhileEntryLive ==
    [][ last'.op = "begin" =>
          /\ LiveEntry(throttlingCache[last'.thumbprint]) =>
                (~last'.preOk /\ last'.net = 0 /\ Awaiting' = Awaiting)
          /\ last'.preOk =>
                /\ last'.net = 1
                /\ \E c \in Calls \ Awaiting :
                      /\ Awaiting' = Awaiting \cup {c}
                      /\ call'[c].net = 1
                      /\ call'[c].thumbprint = last'.thumbprint ]_vars

C2_Witness ==
    /\ last.op = "begin"
    /\ last.outcome.kind = "throttled"
    /\ \E c \in Awaiting : call[c].thumbprint = last.thumbprint

C4_SignalWritesEntry ==
    (last.op = "response" /\ SignalIn(last.outcome)) =>
        LET e == throttlingCache[last.thumbprint]
        IN /\ e.present
           /\ e.throttleTime =
                 IF last.outcome.retryAfter # NoHeader
                 THEN now + last.outcome.retryAfter
                 ELSE now + DEFAULT_THROTTLE_TIME
           /\ e.throttleTime > now
           /\ e.error = last.outcome.error
           /\ last.postThumbprint = last.thumbprint

C4_Witness ==
    /\ last.op = "response"
    /\ last.outcome.status = 429
    /\ last.outcome.retryAfter = 3
    /\ throttlingCache[last.thumbprint].throttleTime = now + 3
    /\ now > 0

\* C5: a response with no throttling signal leaves the throttling cache as it was.
C5_NoSignalLeavesCache ==
    [][ (last'.op = "response" /\ ~SignalIn(last'.outcome)) =>
          throttlingCache' = throttlingCache ]_vars

C5_Witness ==
    /\ last.op = "response"
    /\ last.outcome.status = 200
    /\ last.outcome.retryAfter = NoHeader
    /\ LiveEntry(throttlingCache[last.thumbprint])

\* C6: within one call the order is pre-flight, network call, post-flight, with
\* one thumbprint: the network client is invoked at most once and only after a
\* pre-flight without error, and post-flight runs once per returned response,
\* never before it and never without one.
C6_StepOrder ==
    /\ \A c \in Calls :
          /\ call[c].pc = "awaiting" => (call[c].net = 1 /\ call[c].preOk)
          /\ call[c].pc = "idle" => call[c].net = 0
    /\ last.net <= 1
    /\ last.net = 1 => last.preOk
    /\ last.op = "begin" => last.post = 0
    /\ last.op = "response" =>
          (last.net = 1 /\ last.post = 1 /\ last.postThumbprint = last.thumbprint)
    /\ last.op = "failure" => (last.net = 1 /\ last.post = 0)

C6_Witness ==
    /\ last.op = "response"
    /\ last.net = 1
    /\ last.post = 1
    /\ last.postThumbprint = "T2"

\* C7: an entry leaves the cache only in a pre-flight of its own thumbprint that
\* finds its throttleTime in the past; nothing else removes one.
C7_OnlyExpiredEntriesLeave ==
    [][ \A t \in Thumbprints :
          (throttlingCache[t].present /\ ~throttlingCache'[t].present) =>
              /\ last'.op = "begin"
              /\ last'.thumbprint = t
              /\ throttlingCache[t].throttleTime < now ]_vars

C7_Witness ==
    /\ last.op = "response"
    /\ last.outcome.status = 200
    /\ \E t \in Thumbprints : StaleEntry(throttlingCache[t])

\* C8: throttling is shared by thumbprint and by nothing else: whichever call
\* asks, a request is rejected exactly on a live entry of its own thumbprint, and
\* no step of a call touches the entry of another thumbprint.
C8_SharedByThumbprintOnly ==
    [][ /\ last'.op = "begin" =>
              (last'.outcome.kind = "throttled"
                 <=> (throttlingCache[last'.thumbprint].present
                        /\ throttlingCache[last'.thumbprint].throttleTime >= now))
        /\ last'.op \in {"begin", "response", "failure"} =>
              \A u \in Thumbprints \ {last'.thumbprint} :
                  throttlingCache'[u] = throttlingCache[u] ]_vars

C8_Witness ==
    /\ last.op = "begin"
    /\ last.preOk
    /\ \E u \in Thumbprints \ {last.thumbprint} : LiveEntry(throttlingCache[u])

\* ------------------------------------------------------ the key store
Stored == {k \in Kids : asymmetricKeys[k].present}

\* C9: every pair held in the asymmetric partition has a private key that is not
\* extractable: the key cached is the re-imported one, never the generated one.
C9_StoredPrivateKeysNotExtractable ==
    /\ \A k \in Stored :
          /\ asymmetricKeys[k].privateKey.kind = "private"
          /\ asymmetricKeys[k].privateKey.extractable = FALSE
    /\ \A p \in Tasks :
          task[p].pair.present => task[p].pair.privateKey.extractable = FALSE

C9_Witness ==
    /\ klast.op = "stored"
    /\ Stored = Kids
    /\ \A k \in Kids : asymmetricKeys[k].privateKey.extractable = FALSE

\* C10 as stated: once getPublicKeyThumbprint has returned t, a signJwt with
\* kid = t finds the pair, provided no removeTokenBindingKey(t) and no
\* clearKeystore ran, in whole or in part, after that return.
C10_SignsAfterReturn ==
    (klast.op = "signLookup" /\ klast.wasIssued) => klast.found

\* C10 amended: once getPublicKeyThumbprint has returned t, a signJwt with
\* kid = t succeeds and signs with the private key stored under t, provided no
\* removeTokenBindingKey(t) and no clearKeystore ran since the pair was stored
\* (neither after the return nor while getPublicKeyThumbprint awaited setItem).
C10_SignsAfterUndisturbedReturn ==
    /\ (klast.op = "signLookup" /\ klast.wasIntact) =>
          /\ klast.found
          /\ klast.result = <<>>
          /\ klast.pair = asymmetricKeys[klast.kid]
          /\ \E p \in Tasks :
                /\ task[p].pc = "signing"
                /\ task[p].pair.publicKey = klast.pair.publicKey
                /\ task[p].pair.privateKey = klast.pair.privateKey
    /\ \A p \in Tasks :
          task[p].pc = "signing" =>
              PublicJwkHash([publicKey |-> task[p].pair.publicKey]) = task[p].kid
    /\ klast.op = "signed" =>
          /\ Len(klast.result) = 3
          /\ klast.result[3] =
                UrlEncode(<<"signature", "private", klast.pair.privateKey.material,
                            <<klast.result[1], klast.result[2]>> >>)
          /\ klast.kid = HashString(GetJwkString(
                << <<"e", "AQAB">>, <<"kty", "RSA">>,
                   <<"n", klast.pair.privateKey.material>> >>))

C10_Witness ==
    /\ klast.op = "signed"
    /\ klast.kid \in intact
    /\ Len(klast.result) = 3

\* C11: signJwt and getAsymmetricPublicKey called with a kid that has no entry
\* in the asymmetric partition fail with SigningKeyNotFoundInStorage; no call
\* goes on to export or sign, no token is given, and the key store is left as
\* it was.
C11_MissingKeyFails ==
    [][(/\ klast'.op \in {"signLookup", "publicKey"}
        /\ ~asymmetricKeys[klast'.kid].present)
       => /\ klast'.result = <<"SigningKeyNotFoundInStorage">>
          /\ task' = task
          /\ asymmetricKeys' = asymmetricKeys
          /\ symmetricKeys' = symmetricKeys]_vars

C11_Witness ==
    /\ klast.op = "signLookup"
    /\ ~asymmetricKeys[klast.kid].present
    /\ klast.result = <<"SigningKeyNotFoundInStorage">>
    /\ Stored # {}
    /\ \A p \in Tasks : task[p].pc # "signing"

\* C12: removeTokenBindingKey(kid) leaves no entry under kid and leaves the
\* entries under every other thumbprint (and the symmetric partition) as they
\* were; its return changes nothing; and an absent entry stays absent, so that
\* a lookup of kid after the call finds nothing, until a pair is stored under
\* that thumbprint again.
C12_RemovedKeyIsAbsent ==
    [][/\ klast'.op = "removed" =>
            /\ ~asymmetricKeys'[klast'.kid].present
            /\ \A k \in Kids \ {klast'.kid} : asymmetricKeys'[k] = asymmetricKeys[k]
            /\ symmetricKeys' = symmetricKeys
       /\ klast'.op = "removeReturned" =>
            /\ asymmetricKeys' = asymmetricKeys
            /\ symmetricKeys' = symmetricKeys
       /\ \A k \in Kids :
            (~asymmetricKeys[k].present /\ asymmetricKeys'[k].present) =>
                (klast'.op = "stored" /\ klast'.kid = k)]_vars

C12_Witness ==
    /\ klast.op = "removeReturned"
    /\ klast.found
    /\ klast.result = <<TRUE>>
    /\ ~asymmetricKeys[klast.kid].present
    /\ \E k \in Kids \ {klast.kid} : asymmetricKeys[k].present

\* C13: removeTokenBindingKey(kid) returns true only if a pair was stored under
\* kid before the call and none is retrievable under kid after it.
C13_TrueOnlyIfRemoved ==
    (klast.op = "removeReturned" /\ klast.result = <<TRUE>>) =>
        (klast.found /\ ~asymmetricKeys[klast.kid].present)

C15_FailedGenerationStoresNothing ==
    [][/\ klast'.op = "stored" => klast'.gen = "ok"
       /\ klast'.op = "keyGenerationFailed" =>
            /\ klast'.gen \in {"throws", "noPublicKey", "noPrivateKey"}
            /\ klast'.result = <<"KeyGenerationFailed">>
            /\ task' = task
            /\ asymmetricKeys' = asymmetricKeys
            /\ symmetricKeys' = symmetricKeys]_vars

C15_Witness ==
    /\ klast.op = "keyGenerationFailed"
    /\ klast.gen = "noPrivateKey"
    /\ klast.result = <<"KeyGenerationFailed">>
    /\ Stored # {}

\* C16: the thumbprint of a public JWK is the hash of the string of its fields
\* e, kty and n, in that order, and of nothing else: two JWKs that agree on e,
\* kty and n have one thumbprint whatever their other fields are, a second
\* computation gives the same value, and (the hash being injective) JWKs that
\* differ in n have different thumbprints.
C16_ThumbprintOfEKtyN ==
    /\ jwks.pc \in {"hashed", "rehashed"} =>
          jwks.firstHash =
              <<"sha256", <<"json", << <<"e", jwks.first.e>>,
                                       <<"kty", jwks.first.kty>>,
                                       <<"n", jwks.first.n>> >> >> >>
    /\ jwks.pc = "hashed" =>
          /\ (/\ jwks.first.e = jwks.second.e
              /\ jwks.first.kty = jwks.second.kty
              /\ jwks.first.n = jwks.second.n) => jwks.firstHash = jwks.secondHash
          /\ jwks.first.n # jwks.second.n => jwks.firstHash # jwks.secondHash
    /\ jwks.pc = "rehashed" => jwks.secondHash = jwks.firstHash

C16_Witness ==
    /\ jwks.pc = "hashed"
    /\ jwks.first.alg # jwks.second.alg
    /\ jwks.first.ext # jwks.second.ext
    /\ jwks.first.n = jwks.second.n
    /\ jwks.firstHash = jwks.secondHash

\* C17: every entry of the asymmetric partition is stored under the thumbprint
\* of its own public key; getPublicKeyThumbprint stores the generated pair,
\* with the request's resourceRequestMethod and resourceRequestUri, under the
\* very thumbprint it then returns; a store under a thumbprint already present
\* overwrites that entry and adds none.
C17_StoredUnderOwnThumbprint ==
    [][/\ \A k \in Kids :
            asymmetricKeys'[k].present =>
                k = <<"sha256", <<"json",
                        << <<"e", "AQAB">>, <<"kty", "RSA">>,
                           <<"n", asymmetricKeys'[k].publicKey.material>> >> >> >>
       /\ klast'.op = "stored" =>
            /\ asymmetricKeys'[klast'.kid].present
            /\ asymmetricKeys'[klast'.kid].requestMethod =
                  klast'.input[1].resourceRequestMethod
            /\ asymmetricKeys'[klast'.kid].requestUri =
                  klast'.input[1].resourceRequestUri
            /\ \A k \in Kids \ {klast'.kid} : asymmetricKeys'[k] = asymmetricKeys[k]
            /\ Cardinality({k \in Kids : asymmetricKeys'[k].present}) =
                  Cardinality(Stored \cup {klast'.kid})
            /\ \E p \in Tasks : /\ task[p].pc = "idle"
                                /\ task'[p].pc = "stored"
                                /\ task'[p].kid = klast'.kid
       /\ klast'.op = "thumbprint" =>
            /\ klast'.result = <<klast'.kid>>
            /\ \E p \in Tasks : /\ task[p].pc = "stored"
                                /\ task[p].kid = klast'.kid
                                /\ task'[p].pc = "idle"]_vars

C17_Witness ==
    /\ klast.op = "stored"
    /\ asymmetricKeys[klast.kid].requestMethod = "GET"
    /\ \E p, q \in Tasks : /\ p # q
                           /\ task[p].pc = "stored" /\ task[q].pc = "stored"
                           /\ task[p].kid = klast.kid /\ task[q].kid = klast.kid
    /\ Cardinality(Stored) = 1

\* C18: a pair stored under thumbprint t changes or goes only in a step that is
\* removeTokenBindingKey(t), a clearKeystore or a new store under t; signJwt,
\* getAsymmetricPublicKey, decryptBoundTokenResponse, failed key generation
\* and key generation for other thumbprints leave it, and a lookup of t finds
\* it as it was stored. (The key store reads no clock: the passing of time is
\* a step that changes nothing.)
C18_StoredPairIsNotEvicted ==
    [][/\ \A k \in Kids :
            (asymmetricKeys[k].present /\ asymmetricKeys'[k] # asymmetricKeys[k]) =>
                \/ klast'.op = "removed" /\ klast'.kid = k
                \/ klast'.op = "cleared"
                \/ klast'.op = "stored" /\ klast'.kid = k
       /\ (/\ klast'.op \in {"signLookup", "publicKey", "decrypted"}
           /\ asymmetricKeys[klast'.kid].present) =>
                /\ klast'.found
                /\ klast'.result # <<"SigningKeyNotFoundInStorage">>
                /\ asymmetricKeys' = asymmetricKeys
       /\ (/\ klast'.op \in {"signLookup", "publicKey"}
           /\ asymmetricKeys[klast'.kid].present) =>
                klast'.pair = asymmetricKeys[klast'.kid]]_vars

C18_Witness ==
    /\ klast.op = "publicKey"
    /\ klast.found
    /\ klast.pair = asymmetricKeys[klast.kid]
    /\ Stored = Kids
    /\ \E p \in Tasks : task[p].pc = "signing" /\ task[p].kid # klast.kid

\* C19: for every payload and every kid found in the key store, signJwt
\* returns three segments header.payload.signature: the header is the
\* base64url of the JSON of {alg: alg of the stored public JWK, type: "jwk"},
\* the payload the base64url of the JSON of the claims given with cnf.jwk set
\* to the JWK of the stored public key, and the signature the base64url of the
\* signature made with the private key stored under kid over exactly
\* "header.payload".
C19_SignedJwtSegments ==
    klast.op = "signed" =>
        LET jwk == ExportJwk(klast.pair.publicKey)
            header == <<"base64url", <<"json", [alg |-> jwk.alg, type |-> "jwk"]>> >>
            payload == <<"base64url",
                         <<"json", [at |-> klast.input[1].at,
                                    nonce |-> klast.input[1].nonce,
                                    cnf |-> [jwk |-> jwk]]>> >>
        IN /\ Len(klast.result) = 3
           /\ klast.result[1] = header
           /\ klast.result[2] = payload
           /\ klast.result[3] =
                <<"base64url", <<"signature", "private",
                                 klast.pair.privateKey.material, <<header, payload>> >> >>
           /\ klast.pair.privateKey.kind = "private"
           /\ klast.kid = <<"sha256", <<"json",
                  << <<"e", "AQAB">>, <<"kty", "RSA">>,
                     <<"n", klast.pair.privateKey.material>> >> >> >>

C19_Witness ==
    /\ klast.op = "signed"
    /\ klast.input = <<[at |-> "access_token_2", nonce |-> "nonce", cnf |-> <<>>]>>
    /\ Len(klast.result) = 3
    /\ klast.result[2][2][2].cnf.jwk.n = klast.pair.publicKey.material
    /\ asymmetricKeys[klast.kid].present

HasToken(s, tok) == \E i \in 1..Len(s) : s[i] = tok

\* u, p and q are the host and port, the absolute path and the query string of
\* the URL: the URL is its scheme, "://", u, p and, after a question mark, q
UrlSplitsInto(url, u, p, q) ==
    /\ ~HasToken(u, "/") /\ ~HasToken(u, "?")
    /\ p # <<>> => p[1] = "/"
    /\ ~HasToken(p, "?")
    /\ \E k \in 0..Len(url) :
          /\ ~HasToken(SubSeq(url, 1, k), "://")
          /\ \/ url = SubSeq(url, 1, k) \o <<"://">> \o u \o p \o <<"?">> \o q
             \/ q = <<>> /\ url = SubSeq(url, 1, k) \o <<"://">> \o u \o p

CarriesAll(request) ==
    /\ request.resourceRequestMethod # Undefined
    /\ request.resourceRequestUri # Undefined
    /\ request.shrClaims # Undefined
    /\ request.shrNonce # Undefined

CarriesNone(request) ==
    /\ request.resourceRequestMethod = Undefined
    /\ request.resourceRequestUri = Undefined
    /\ request.shrClaims = Undefined
    /\ request.shrNonce = Undefined

C22_NonceOfRequestOrGuid ==
    pop.pc = "signJwtCalled" =>
        /\ CarriesNone(pop.request) =>
              /\ pop.payload.m = Undefined
              /\ pop.payload.u = Undefined
              /\ pop.payload.p = Undefined
              /\ pop.payload.q = Undefined
              /\ pop.payload.client_claims = Undefined
              /\ pop.guids = 1
              /\ pop.guid \in Guids
              /\ pop.payload.nonce = pop.guid
        /\ pop.request.shrNonce # Undefined =>
              /\ pop.payload.nonce = pop.request.shrNonce[1]
              /\ pop.payload.nonce \notin Guids

C22_Witness ==
    /\ pop.pc = "signJwtCalled"
    /\ CarriesNone(pop.request)
    /\ pop.payload.nonce = "guid-2"

\* what decoding and parsing the string of generateCnf gives
DecodedReqCnf == JsonParse(Base64Decode(pop.reqCnfString))

C24_DecryptGivesNullOnce ==
    klast.op = "decrypted" =>
        /\ klast.result \in {<<"null">>, <<"ServerAuthorizationTokenResponse">>}
        /\ (~klast.found \/ ~klast.input[1]) => klast.result = <<"null">>
        /\ klast.calls <= 1

C24_Witness ==
    /\ klast.op = "decrypted"
    /\ ~klast.found
    /\ klast.result = <<"null">>
    /\ klast.calls = 1

ReadOnlySteps == {"signLookup", "signed", "publicKey", "decrypted"}

\* C25: a step of signJwt, getAsymmetricPublicKey or decryptBoundTokenResponse,
\* whether it succeeds or fails, leaves both partitions of the key store with
\* the entries they held
C25_ReadOnlyOperations ==
    [][klast'.op \in ReadOnlySteps =>
          /\ asymmetricKeys' = asymmetricKeys
          /\ symmetricKeys' = symmetricKeys]_vars

C25_Witness ==
    /\ klast.op = "publicKey"
    /\ klast.found
    /\ asymmetricKeys[klast.kid].present
    /\ symmetricKeys # {}

\* ------------------------------------------------ the failing network call
\* C26: when the network call fails, sendPostRequest throws and returns no
\* response: for a NetworkError the error it wraps (e.error) is thrown, an
\* AuthError is thrown as it is, and for any other failure a ClientAuthError
\* with the code networkError is thrown
C26_FailureIsMapped ==
    last.op = "failure" =>
        /\ last.outcome.kind = "thrown"
        /\ last.failure.class = "NetworkError" =>
              /\ last.outcome.error = last.failure.error.class
              /\ last.outcome.errorCode = last.failure.error.errorCode
        /\ last.failure.class = "AuthError" =>
              /\ last.outcome.error = "AuthError"
              /\ last.outcome.errorCode = last.failure.errorCode
        /\ last.failure.class \notin {"NetworkError", "AuthError"} =>
              /\ last.outcome.error = "ClientAuthError"
              /\ last.outcome.errorCode = "network_error"

C26_Witness ==
    /\ last.op = "failure"
    /\ last.failure.class = "NetworkError"
    /\ last.outcome.errorCode = "post_request_failed"

\* C27: the step in which the network call throws runs no postProcess and
\* leaves every entry of the throttling cache as it was, also when a
\* NetworkError carries the status 429 or >= 500 or a Retry-After header
C27_FailureLeavesCache ==
    [][last'.op = "failure" =>
          /\ last'.post = 0
          /\ throttlingCache' = throttlingCache]_vars

C27_Witness ==
    /\ last.op = "failure"
    /\ last.failure.class = "NetworkError"
    /\ last.failure.httpStatus = 0
    /\ last.failure.retryAfter = 3
    /\ ~throttlingCache[last.thumbprint].present

\* ------------------------------------------------ the telemetry cache
\* C28: a step of executePostToTokenEndpoint clears the server telemetry cache
\* exactly when a server telemetry manager is configured and the step obtained
\* a response whose status is below 500 and is not 429; it does not clear it
\* when pre-flight rejects the request, when the network call throws, or when
\* the status is 429 or >= 500
C28_TelemetryClearedOnGoodStatus ==
    /\ telemetry.clears \in {0, 1}
    /\ telemetry.clears = 1 <=>
          /\ telemetry.serverTelemetryManager
          /\ last.op = "response"
          /\ last.outcome.status < 500
          /\ last.outcome.status # 429
    /\ (last.op = "begin" /\ ~last.preOk) => telemetry.clears = 0
    /\ last.op = "failure" => telemetry.clears = 0
    /\ (last.op = "response" /\ last.outcome.status \in {429, 500}) =>
          telemetry.clears = 0

C28_Witness ==
    /\ telemetry.clears = 1
    /\ telemetry.serverTelemetryManager
    /\ last.op = "response"
    /\ last.outcome.status = 200
    /\ last.outcome.retryAfter # NoHeader

\* ------------------------------------------------ two calls, one thumbprint
\* the entry postProcess computes for a response with a throttling signal
EntryFor(o) ==
    [present |-> TRUE,
     throttleTime |-> IF o.retryAfter # NoHeader THEN now + o.retryAfter
                      ELSE now + DEFAULT_THROTTLE_TIME,
     error |-> o.error, errorCode |-> o.errorCode, subError |-> o.subError]

\* C29: two calls with one thumbprint that passed pre-flight before either
\* response arrived have both reached the network; when their post-flights run
\* one after the other, the later one with a throttling signal leaves exactly
\* the entry it computed, whatever the earlier one wrote, and a post-flight
\* without a throttling signal leaves the entry of the other call in place
C29_LastWriterWins ==
    [][ (last.op = "response" /\ last'.op = "response"
            /\ last'.thumbprint = last.thumbprint) =>
          LET t == last.thumbprint
          IN /\ last.preOk /\ last.net = 1
             /\ last'.preOk /\ last'.net = 1
             /\ \E c \in Calls :
                   /\ call[c].pc = "awaiting" /\ call[c].thumbprint = t
                   /\ call[c].net = 1
                   /\ call'[c].pc = "idle"
             /\ SignalIn(last'.outcome) =>
                   throttlingCache'[t] = EntryFor(last'.outcome)
             /\ ~SignalIn(last'.outcome) =>
                   /\ throttlingCache'[t] = throttlingCache[t]
                   /\ SignalIn(last.outcome) =>
                         throttlingCache'[t] = EntryFor(last.outcome)
      ]_vars

C29_Witness ==
    /\ last.op = "response"
    /\ SignalIn(last.outcome)
    /\ throttlingCache[last.thumbprint] = EntryFor(last.outcome)
    /\ \E c \in Calls :
          /\ call[c].pc = "awaiting"
          /\ call[c].thumbprint = last.thumbprint
          /\ call[c].net = 1

\* ------------------------------------------------ throttling ends
\* a request with thumbprint t has just passed pre-flight and gone to the network
PassedPreFlight(t) ==
    last.op = "begin" /\ last.thumbprint = t /\ last.preOk /\ last.net = 1

\* C30: while time advances and the caller keeps retrying thumbprint T, an entry
\* for T whose throttleTime lies within the clock's horizon is followed by a
\* request with thumbprint T that passes pre-flight and reaches the network,
\* unless a call that was already in flight rewrites the entry to a
\* throttleTime at or beyond the horizon
C30_ThrottlingEnds ==
    \A t \in RetriedThumbprints :
        (throttlingCache[t].present /\ throttlingCache[t].throttleTime < MaxTime)
            ~> (PassedPreFlight(t) \/ throttlingCache[t].throttleTime >= MaxTime)

C30_Witness ==
    \E t \in RetriedThumbprints :
        /\ PassedPreFlight(t)
        /\ last.expired
        /\ ~throttlingCache[t].present
        /\ \E c \in Calls : call[c].pc = "awaiting" /\ call[c].thumbprint = t

\* C31: updateAuthority replaces the client's authority only in the step in
\* which createDiscoveredInstance has resolved, and then with the instance
\* discovered for that call; when createDiscoveredInstance throws, the call
\* ends throwing that error and leaves the client's authority the object it was.
C31_AuthorityReplacedAfterDiscovery ==
    [][/\ authority' # authority =>
             /\ alast'.op = "resolved"
             /\ updateAuthority[alast'.call].pc = "discovering"
             /\ updateAuthority'[alast'.call] = IdleUpdate
             /\ authority'.id # authority.id
             /\ authority'.canonicalAuthority =
                   CloudInstanceAuthorityUri(
                       updateAuthority[alast'.call].cloudInstanceHostname,
                       updateAuthority[alast'.call].tenant)
       /\ (updateAuthority' # updateAuthority /\ alast'.op = "rejected") =>
             /\ authority' = authority
             /\ alast'.thrown \in DiscoveryFailures
             /\ updateAuthority'[alast'.call] = IdleUpdate]_vars

C31_Witness ==
    /\ alast.op = "rejected"
    /\ authority.id > 0
    /\ \E c \in Calls : updateAuthority[c].pc = "discovering"

\* a signIn call of the controller that passed the username check
SignInPastCheck ==
    /\ signIn.pc # "none"
    /\ signIn.method = "signIn"
    /\ ~Falsy(signIn.options.username)

\* the operations of the sign-in client called so far, in order
OpsCalled == [i \in 1..Len(signIn.calls) |-> signIn.calls[i].op]

StartGave(class) ==
    /\ signIn.startResult # Undefined
    /\ signIn.startResult[1].class = class

NextStateIs(class) ==
    /\ signIn.result.state # Undefined
    /\ signIn.result.state[1].class = class
    /\ signIn.result.state[1].continuationToken =
          signIn.startResult[1].continuationToken
    /\ signIn.result.state[1].correlationId = signIn.correlationId

\* start first and once; password required; code required
StartFirstAndBranches ==
    /\ Len(signIn.calls) >= 1
    /\ signIn.calls[1].op = "start"
    /\ signIn.calls[1].params.username = signIn.options.username
    /\ \A i \in 2..Len(signIn.calls) : signIn.calls[i].op # "start"
    /\ (StartGave("SignInWithContinuationTokenResult")
          /\ Falsy(signIn.options.password)) =>
          /\ signIn.pc = "returned"
          /\ NextStateIs("SignInPasswordRequiredState")
          /\ signIn.result.data = Undefined
          /\ signIn.result.error = Undefined
          /\ OpsCalled = <<"start">>
    /\ StartGave("SignInCodeSendResponse") =>
          /\ signIn.pc = "returned"
          /\ NextStateIs("SignInCodeRequiredState")
          /\ signIn.result.data = Undefined
          /\ signIn.result.error = Undefined
          /\ OpsCalled = <<"start">>

\* submitPassword once, after start, with start's continuation token
SubmitsOnceAfterStart ==
    /\ OpsCalled = <<"start", "submitPassword">>
    /\ signIn.calls[2].params.continuationToken =
          signIn.startResult[1].continuationToken
    /\ signIn.calls[2].params.password = signIn.options.password

ResultIsAccount ==
    /\ signIn.result.data # Undefined
    /\ signIn.result.data[1].class = "AccountInfo"
    /\ [authenticationResult |->
            Defined([account |-> signIn.result.data[1].account])]
          \in SignInCompletedResults
    /\ signIn.result.data[1].correlationId = signIn.correlationId
    /\ signIn.result.state = Undefined
    /\ signIn.result.error = Undefined

\* C32 as stated: with a password supplied the returned result always carries
\* the account data
C32_PasswordAlwaysGivesAccount ==
    SignInPastCheck =>
       /\ StartFirstAndBranches
       /\ (StartGave("SignInWithContinuationTokenResult")
             /\ ~Falsy(signIn.options.password)) =>
             /\ SubmitsOnceAfterStart
             /\ signIn.pc = "returned" => ResultIsAccount

\* C32: signIn calls start once and first; a continuation token with no
\* password (undefined or empty) gives a SignInPasswordRequiredState holding
\* the token, no account data and no submitPassword call; with a password,
\* submitPassword is called once, after start, with that token, and when it
\* resolved with an authentication result the result carries the account data
\* and no next state; a code-send response gives a SignInCodeRequiredState and
\* no submitPassword call, password or not.
C32_StepOrder ==
    SignInPastCheck =>
       /\ StartFirstAndBranches
       /\ (StartGave("SignInWithContinuationTokenResult")
             /\ ~Falsy(signIn.options.password)) =>
             /\ SubmitsOnceAfterStart
             /\ (signIn.pc = "returned" /\ signIn.thrown = Undefined) =>
                   ResultIsAccount
             /\ (signIn.pc = "returned" /\ signIn.thrown # Undefined) =>
                   signIn.result.data = Undefined

C32_Witness ==
    /\ SignInPastCheck
    /\ signIn.pc = "returned"
    /\ StartGave("SignInWithContinuationTokenResult")
    /\ OpsCalled = <<"start", "submitPassword">>
    /\ signIn.result.data # Undefined

\* the correlation id of the call in signIn: the one given, or the GUID made
\* for it when none (or an empty one) was given
CallCorrelationId ==
    IF signIn.options.correlationId \in {Undefined, Defined("")}
    THEN signIn.createdGuid[1]
    ELSE signIn.options.correlationId[1]

ResultClassOf(method) ==
    CASE method = "signIn" -> "SignInResult"
      [] method = "signUp" -> "SignUpResult"
      [] method = "resetPassword" -> "ResetPasswordStartResult"

\* C33: signIn, signUp and resetPassword called with a username that is
\* missing or empty resolve to their result carrying an InvalidArgumentError
\* for "username" with the call's correlation id, and no data and no state,
\* having called no operation of the sign-in client.
C33_MissingUsernameIsAnErrorResult ==
    (signIn.pc # "none" /\ signIn.options.username \in {Undefined, Defined("")})
       =>
       /\ signIn.pc = "returned"
       /\ signIn.calls = <<>>
       /\ signIn.result.class = ResultClassOf(signIn.method)
       /\ signIn.result.error # Undefined
       /\ signIn.result.error[1].class = "InvalidArgumentError"
       /\ signIn.result.error[1].argName = "username"
       /\ signIn.result.error[1].correlationId = Defined(CallCorrelationId)
       /\ signIn.result.data = Undefined
       /\ signIn.result.state = Undefined

C33_Witness ==
    /\ signIn.pc = "returned"
    /\ signIn.method = "resetPassword"
    /\ signIn.options.username = Defined("")
    /\ signIn.options.correlationId = Undefined
    /\ signIn.result.error # Undefined

\* the call returned a SignInResult that carries the error and nothing else
ErrorResultOf(error) ==
    /\ signIn.pc = "returned"
    /\ signIn.result.class = "SignInResult"
    /\ signIn.result.error = error
    /\ signIn.result.data = Undefined
    /\ signIn.result.state = Undefined

\* C34: a signIn call that passed the username check never rejects; when
\* start or submitPassword threw, or reading the account threw, or start
\* resolved with a result of unknown type (an UnexpectedError), the call
\* returned a SignInResult created with that error, with no account data and
\* no next state.
C34_ErrorsAreReturned ==
    SignInPastCheck =>
       /\ signIn.pc \in {"start", "submitPassword", "returned"}
       /\ signIn.thrown # Undefined => ErrorResultOf(signIn.thrown)
       /\ (signIn.pc = "returned" /\ signIn.startResult = Undefined) =>
             /\ signIn.thrown \in {Defined(e) : e \in SignInClientErrors}
             /\ ErrorResultOf(signIn.thrown)
       /\ StartGave("Object") =>
             /\ signIn.thrown = Defined(UnknownStartResultError)
             /\ signIn.thrown[1].class = "UnexpectedError"
             /\ signIn.thrown[1].errorDescription =
                   "Unknow SignInStartResult type"
             /\ ErrorResultOf(signIn.thrown)
       /\ (signIn.pc = "returned" /\ signIn.thrown = Undefined) =>
             /\ signIn.result.error = Undefined
             /\ signIn.result.data # Undefined
                   \/ signIn.result.state # Undefined

C34_Witness ==
    /\ SignInPastCheck
    /\ signIn.pc = "returned"
    /\ OpsCalled = <<"start", "submitPassword">>
    /\ signIn.thrown # Undefined
    /\ signIn.thrown[1].class = "UserNotFoundError"

\* C35: a signIn call of the application is received by the controller the
\* constructor built from the application's configuration, whose client id the
\* sign-in client is called with; a controller handed to the constructor is
\* the base class's controller and is never the receiver.
C35_SignInGoesToBuiltController ==
    /\ app.pc = "constructed" =>
          /\ app.nativeAuthController =
                NativeAuthStandardController("nativeAuthController", app.config)
          /\ app.injected # Undefined =>
                /\ app.controller = app.injected[1]
                /\ app.controller # app.nativeAuthController
    /\ (signIn.pc # "none" /\ signIn.method = "signIn") =>
          /\ signIn.controller =
                NativeAuthStandardController("nativeAuthController", app.config)
          /\ app.injected # Undefined => signIn.controller # app.injected[1]
          /\ \A i \in 1..Len(signIn.calls) :
                signIn.calls[i].params.clientId = app.config.clientId

C35_Witness ==
    /\ app.pc = "constructed"
    /\ app.injected # Undefined
    /\ signIn.pc = "returned"
    /\ signIn.method = "signIn"
    /\ Len(signIn.calls) = 2

\* a pair as getPublicKeyThumbprint stored it under kid: both halves, of one
\* key, with the thumbprint kid
WholePairOf(pair, kid) ==
    /\ pair.present
    /\ pair.publicKey.kind = "public"
    /\ pair.privateKey.kind = "private"
    /\ pair.privateKey.material = pair.publicKey.material
    /\ JwkThumbprint(ExportJwk(pair.publicKey)) = kid

\* header.payload.signature for the payload, all three made from the pair
CompleteTokenOf(token, payload, pair) ==
    LET jwk == ExportJwk(pair.publicKey)
    IN  /\ Len(token) = 3
        /\ token[1] = UrlEncode(JsonStringify([alg |-> jwk.alg, type |-> "jwk"]))
        /\ token[2] = UrlEncode(JsonStringify(
                          [at |-> payload.at, nonce |-> payload.nonce,
                           cnf |-> [jwk |-> jwk]]))
        /\ token[3] = UrlEncode(<<"signature", "private",
                                  pair.privateKey.material,
                                  <<token[1], token[2]>> >>)

\* C36: with signJwt, removeTokenBindingKey and clearKeystore calls
\* interleaving, a signJwt whose lookup finds no pair under kid (removed
\* before) throws SigningKeyNotFoundInStorage and goes no further; one whose
\* lookup finds the pair holds that pair untouched by later removals and
\* returns the complete token made from it, a whole pair of thumbprint kid;
\* signJwt puts nothing into the store, so that a kid removed is absent when
\* both calls are over.
C36_SignJwtFailsOrSignsPairRead ==
    [][/\ klast'.op = "signLookup" =>
             /\ klast'.pair = asymmetricKeys[klast'.kid]
             /\ ~asymmetricKeys[klast'.kid].present =>
                   /\ klast'.result = <<"SigningKeyNotFoundInStorage">>
                   /\ task' = task
             /\ asymmetricKeys[klast'.kid].present =>
                   /\ klast'.result = <<>>
                   /\ \E p \in Tasks :
                         /\ task[p].pc = "idle"
                         /\ task'[p].pc = "signing"
                         /\ task'[p].kid = klast'.kid
                         /\ task'[p].pair.publicKey =
                               asymmetricKeys[klast'.kid].publicKey
                         /\ task'[p].pair.privateKey =
                               asymmetricKeys[klast'.kid].privateKey
       /\ klast'.op = "signed" =>
             \E p \in Tasks :
                /\ task[p].pc = "signing"
                /\ task'[p].pc = "idle"
                /\ klast'.kid = task[p].kid
                /\ WholePairOf(task[p].pair, task[p].kid)
                /\ CompleteTokenOf(klast'.result, klast'.input[1], task[p].pair)
       /\ \A p \in Tasks :
             (task[p].pc = "signing" /\ task'[p].pc = "signing") =>
                task'[p] = task[p]
       /\ klast'.op \in {"signLookup", "signed"} =>
             asymmetricKeys' = asymmetricKeys
       /\ klast'.op = "removed" => ~asymmetricKeys'[klast'.kid].present
       /\ (klast'.op = "cleared" /\ klast'.found) =>
             \A k \in Kids : ~asymmetricKeys'[k].present
       /\ \A k \in Kids :
             ~asymmetricKeys[k].present => ~asymmetricKeys'[k].present]_vars

\* a token returned for a kid removed after the lookup, both calls over
C36_Witness ==
    /\ klast.op = "signed"
    /\ Len(klast.result) = 3
    /\ ~asymmetricKeys[klast.kid].present
    /\ \E k \in Kids : asymmetricKeys[k].present
    /\ \A p \in Tasks : task[p].pc = "idle"

====
